---- MODULE Spec2Model ----
(***************************************************************************)
(* State-machine model of the Activation lifecycle endpoints of            *)
(* aap_eda/api/views/activation.py (ActivationViewSet).                    *)
(*                                                                         *)
(* Every HTTP request is served by its own handler invocation; Django runs *)
(* in autocommit mode (settings/default.py sets no ATOMIC_REQUESTS) and    *)
(* the handlers take no lock, so the atomic steps are the single database  *)
(* queries / saves and the single job submissions of a handler.  A request *)
(* slot of `req` carries the handler's position (pc) and its local         *)
(* variables.                                                              *)
(***************************************************************************)
EXTENDS Integers, Sequences, FiniteSets, TLC

\* ---------------------------------------------------------------- bounds
MaxActivations == 1
MaxInstances == 2
MaxRequests == 2
MaxJobs == 2
MaxFailureCount == 1
MaxRefId == 2
MaxRulesets == 2
MaxRules == 2
MaxLogs == 3

ActivationIds == 1..MaxActivations
InstanceIds == 1..MaxInstances
ReqIds == 1..MaxRequests
RefIds == 1..MaxRefId
LogIds == 1..MaxLogs

\* ---------------------------------------------------------------- enums
\* aap_eda.core.enums.ActivationStatus, as used by the views
ActivationStatus ==
    {"STARTING", "RUNNING", "PENDING", "FAILED", "STOPPING", "STOPPED",
     "COMPLETED", "UNRESPONSIVE", "ERROR"}

\* the list tested by enable() before it enables
EnableBusyStatuses ==
    {"STARTING", "STOPPING", "PENDING", "RUNNING", "UNRESPONSIVE"}

HTTP_200_OK == 200
HTTP_201_CREATED == 201
HTTP_204_NO_CONTENT == 204
HTTP_403_FORBIDDEN == 403
HTTP_404_NOT_FOUND == 404
HTTP_409_CONFLICT == 409
HTTP_422_UNPROCESSABLE_ENTITY == 422
HTTP_500_SERVER_ERROR == 500

\* REST_FRAMEWORK["PAGE_SIZE"]
PAGE_SIZE == 20

VARIABLES
    db,                 \* table Activation: id -> row (present = FALSE: no row)
    instances,          \* table ActivationInstance: id -> row
    req,                \* request slot -> handler state
    nextActivationId,   \* last id handed out by the Activation sequence
    nextInstanceId,     \* last id handed out by the ActivationInstance sequence
    nextJobId,          \* number of jobs submitted so far (job ids are 1..n)
    queue,              \* the rq queues: job -> copies submitted, not yet taken
    logs                \* table ActivationInstanceLog: id -> row

vars ==
    <<db, instances, req, nextActivationId, nextInstanceId, nextJobId, queue,
      logs>>

\* ---------------------------------------------------------------- rows
NoRow ==
    [present |-> FALSE, is_enabled |-> FALSE, status |-> "PENDING",
     failure_count |-> 0, restart_count |-> 0, current_job_id |-> 0]

NoInstance == [present |-> FALSE, activation_id |-> 0, status |-> "STOPPED"]

\* an id that is not given (Python None; the ids of rows are positive)
None == 0

\* serializer.validated_data of a Create, as far as the view reads it
NoData ==
    [decision_environment_id |-> None, project_id |-> None,
     rulebook_id |-> None, extra_var_id |-> None, is_enabled |-> FALSE]

ValidatedData ==
    [decision_environment_id : {None} \cup RefIds,
     project_id : {None} \cup RefIds,
     rulebook_id : {None} \cup RefIds,
     extra_var_id : {None} \cup RefIds,
     is_enabled : BOOLEAN]

IdleRequest ==
    [op |-> "idle", pc |-> "idle", pk |-> 0, validated_data |-> NoData,
     activation |-> NoRow, instance_running |-> 0, todo |-> {},
     sent |-> <<>>, resp |-> 0, data |-> <<>>]

\* the three task functions the views submit with .delay()
ActivateJob(pk) ==
    [task |-> "activate_rulesets", target |-> pk, is_restart |-> FALSE]

DeactivateRulesetsJob(instance_id) ==
    [task |-> "deactivate_rulesets", target |-> instance_id,
     is_restart |-> FALSE]

DeactivateJob(pk) ==
    [task |-> "deactivate", target |-> pk, is_restart |-> FALSE]

\* every job the views can submit
Jobs ==
    {ActivateJob(pk) : pk \in ActivationIds}
        \cup {DeactivateJob(pk) : pk \in ActivationIds}
        \cup {DeactivateRulesetsJob(i) : i \in InstanceIds}

\* ids of the instances of activation pk (ActivationInstance.objects.filter)
InstancesOf(pk) ==
    {i \in InstanceIds : instances[i].present /\ instances[i].activation_id = pk}

RunningInstancesOf(pk) ==
    {i \in InstancesOf(pk) : instances[i].status = "RUNNING"}

\* the fields of a loaded model object that the handler goes on to use; the
\* other fields of the object are never read again nor written back
\* (every save names its update_fields)
Fields(row, keep) ==
    [f \in DOMAIN row |-> IF f \in keep THEN row[f] ELSE NoRow[f]]

Min(S) == CHOOSE x \in S : \A y \in S : x <= y

\* a handler returns: its locals are gone; the slot keeps which request it
\* served (with its body), the response and the jobs the request submitted
Done(q, code) ==
    [IdleRequest EXCEPT !.op = q.op, !.pk = q.pk,
                        !.validated_data = q.validated_data,
                        !.sent = q.sent, !.pc = "done", !.resp = code]

Respond(r, code) ==
    [req EXCEPT ![r] = Done(req[r], code)]

\* a new request is served by the first free slot (the slots are
\* interchangeable handler invocations)
Idle(r) ==
    /\ req[r].pc = "idle"
    /\ \A q \in ReqIds : q < r => req[q].pc # "idle"

\* ---------------------------------------------------------------- init
Init ==
    /\ db = [a \in ActivationIds |-> NoRow]
    /\ instances = [i \in InstanceIds |-> NoInstance]
    /\ req = [r \in ReqIds |-> IdleRequest]
    /\ nextActivationId = 0
    /\ nextInstanceId = 0
    /\ nextJobId = 0
    /\ queue = [job \in Jobs |-> 0]
    /\ logs = [l \in LogIds |->
                [present |-> FALSE, activation_instance_id |-> 0]]

\* ---------------------------------------------------------------- create
\* the rows of the tables an Activation refers to; the views of this module
\* only read them
Rows ==
    [DecisionEnvironment |-> {1}, Project |-> {2}, Rulebook |-> {1},
     ExtraVar |-> {2}]

\* object_model.objects.filter(pk=object_id).exists()
Exists(object_model, object_id) == object_id \in Rows[object_model]

\* str.capitalize() of the four object names
Capitalize(object_name) ==
    CASE object_name = "decision_environment" -> "Decision_environment"
      [] object_name = "project" -> "Project"
      [] object_name = "rulebook" -> "Rulebook"
      [] object_name = "extra_var" -> "Extra_var"

activation_dependent_objects(activation) ==
    << <<"DecisionEnvironment", "decision_environment",
         activation.decision_environment_id>>,
       <<"Project", "project", activation.project_id>>,
       <<"Rulebook", "rulebook", activation.rulebook_id>>,
       <<"ExtraVar", "extra_var", activation.extra_var_id>> >>

\* mutant: the loop raises for the last missing object, not the first
RECURSIVE ConflictLoop_LastMissing(_, _)
ConflictLoop_LastMissing(objects, n) ==
    IF n > Len(objects)
    THEN [raised |-> TRUE, detail |-> <<"Integrity error.">>]
    ELSE LET object_model == objects[n][1]
             object_name == objects[n][2]
             object_id == objects[n][3]
             rest == ConflictLoop_LastMissing(objects, n + 1)
         IN IF object_id = None
            THEN rest
            ELSE IF ~Exists(object_model, object_id)
                    /\ rest.detail = <<"Integrity error.">>
                 THEN [raised |-> TRUE,
                       detail |-> <<Capitalize(object_name), " with ID=",
                                    object_id, " does not exist.">>]
                 ELSE rest

\* the for loop of handle_activation_create_conflict from its n-th object
\* on, and the raise after it: the exception the function ends with
RECURSIVE ConflictLoop(_, _)
ConflictLoop(objects, n) ==
    IF n > Len(objects)
    THEN [raised |-> TRUE, detail |-> <<"Integrity error.">>]
    ELSE LET object_model == objects[n][1]
             object_name == objects[n][2]
             object_id == objects[n][3]
         IN IF object_id = None
            THEN ConflictLoop(objects, n + 1)
            ELSE IF ~Exists(object_model, object_id)
                 THEN [raised |-> TRUE,
                       detail |-> <<Capitalize(object_name), " with ID=",
                                    object_id, " does not exist.">>]
                 ELSE ConflictLoop(objects, n + 1)

handle_activation_create_conflict(activation) ==
    ConflictLoop(activation_dependent_objects(activation), 1)

\* serializer.create raises IntegrityError: the insert names a row that does
\* not exist (foreign key), or another constraint of the table fails
IntegrityError(validated_data, fails) ==
    \/ fails
    \/ \E n \in 1..4 :
         LET object == activation_dependent_objects(validated_data)[n]
         IN object[3] # None /\ ~Exists(object[1], object[3])

\* mutant: the view does not test is_enabled and never dispatches
CreateInsert_NeverDispatches(r, validated_data, fails) ==
    /\ Idle(r)
    /\ ~IntegrityError(validated_data, fails)
    /\ nextActivationId < MaxActivations
    /\ LET pk == nextActivationId + 1
           row == [NoRow EXCEPT !.present = TRUE,
                                !.is_enabled = validated_data.is_enabled]
       IN /\ db' = [db EXCEPT ![pk] = row]
          /\ nextActivationId' = pk
          /\ LET started == [IdleRequest EXCEPT !.op = "create", !.pk = pk,
                                !.validated_data = validated_data]
             IN req' = [req EXCEPT ![r] = Done(started, HTTP_201_CREATED)]
    /\ UNCHANGED <<instances, nextInstanceId, nextJobId>>

\* mutant: the IntegrityError is not caught
CreateInsert_Uncaught(r, validated_data, fails) ==
    /\ Idle(r)
    /\ LET started == [IdleRequest EXCEPT !.op = "create",
                                          !.validated_data = validated_data]
       IN IF IntegrityError(validated_data, fails)
          THEN /\ req' = [req EXCEPT ![r] =
                            Done(started, HTTP_500_SERVER_ERROR)]
               /\ UNCHANGED <<db, nextActivationId>>
          ELSE /\ nextActivationId < MaxActivations
               /\ LET pk == nextActivationId + 1
                      row == [NoRow EXCEPT
                                !.present = TRUE,
                                !.is_enabled = validated_data.is_enabled]
                      created == [started EXCEPT !.pk = pk]
                  IN /\ db' = [db EXCEPT ![pk] = row]
                     /\ nextActivationId' = pk
                     /\ req' = [req EXCEPT ![r] =
                            IF row.is_enabled
                            THEN [created EXCEPT !.pc = "create_dispatch"]
                            ELSE Done(created, HTTP_201_CREATED)]
    /\ UNCHANGED <<instances, nextInstanceId, nextJobId>>


\* serializer.create(...) inserts the row, or raises IntegrityError and the
\* view has handle_activation_create_conflict name the cause (had that
\* function returned, `response` would be unbound: a server error); after
\* the insert the view tests is_enabled
CreateInsert(r, validated_data, fails) ==
    /\ Idle(r)
    /\ LET started == [IdleRequest EXCEPT !.op = "create",
                                          !.validated_data = validated_data]
       IN IF IntegrityError(validated_data, fails)
          THEN LET conflict ==
                       handle_activation_create_conflict(validated_data)
               IN /\ req' = [req EXCEPT ![r] =
                        [Done(started,
                              IF conflict.raised
                              THEN HTTP_422_UNPROCESSABLE_ENTITY
                              ELSE HTTP_500_SERVER_ERROR)
                            EXCEPT !.data = IF conflict.raised
                                            THEN conflict.detail
                                            ELSE <<>>]]
                  /\ UNCHANGED <<db, nextActivationId>>
          ELSE /\ nextActivationId < MaxActivations
               /\ LET pk == nextActivationId + 1
                      row == [NoRow EXCEPT
                                !.present = TRUE,
                                !.is_enabled = validated_data.is_enabled]
                      created == [started EXCEPT !.pk = pk]
                  IN /\ db' = [db EXCEPT ![pk] = row]
                     /\ nextActivationId' = pk
                     /\ req' = [req EXCEPT ![r] =
                            IF row.is_enabled
                            THEN [created EXCEPT !.pc = "create_dispatch"]
                            ELSE Done(created, HTTP_201_CREATED)]
    /\ UNCHANGED <<instances, nextInstanceId, nextJobId>>


CreateDispatch(r) ==
    /\ req[r].pc = "create_dispatch"
    /\ nextJobId < MaxJobs
    /\ nextJobId' = nextJobId + 1
    /\ req' = [req EXCEPT ![r] =
            Done([req[r] EXCEPT !.sent =
                    Append(@, ActivateJob(req[r].pk))],
                 HTTP_201_CREATED)]
    /\ UNCHANGED <<db, instances, nextActivationId, nextInstanceId>>

\* ---------------------------------------------------------------- enable
\* mutant: the already-enabled test is missing
EnableAlreadyEnabled_Skipped(activation) == FALSE

\* if activation.is_enabled: return 204
EnableAlreadyEnabled(activation) == activation.is_enabled

\* mutant: UNRESPONSIVE is missing from the list
EnableBusy_NoUnresponsive(activation) ==
    activation.status \in EnableBusyStatuses \ {"UNRESPONSIVE"}

\* if activation.status in [...]: return 409
EnableBusy(activation) == activation.status \in EnableBusyStatuses

EnableLoad(r, pk) ==
    /\ Idle(r)
    /\ LET activation == db[pk]
           started == [IdleRequest EXCEPT !.op = "enable", !.pk = pk,
                !.activation = Fields(activation, {"present", "is_enabled",
                                                   "failure_count", "status"})]
       IN req' = [req EXCEPT ![r] =
            IF ~activation.present
            THEN Done(started, HTTP_404_NOT_FOUND)
            ELSE IF EnableAlreadyEnabled(activation)
            THEN Done(started, HTTP_204_NO_CONTENT)
            ELSE IF EnableBusy(activation)
            THEN Done(started, HTTP_409_CONFLICT)
            ELSE [started EXCEPT !.pc = "enable_save",
                                 !.activation.is_enabled = TRUE,
                                 !.activation.failure_count = 0,
                                 !.activation.status = "PENDING"]]
    /\ UNCHANGED <<db, instances, nextActivationId, nextInstanceId, nextJobId>>

\* mutant: failure_count is missing from update_fields
EnableSave_KeepsFailureCount(r) ==
    /\ req[r].pc = "enable_save"
    /\ LET pk == req[r].pk
           activation == req[r].activation
       IN IF db[pk].present
          THEN /\ db' = [db EXCEPT ![pk].is_enabled = activation.is_enabled,
                                   ![pk].status = activation.status]
               /\ req' = [req EXCEPT ![r].pc = "enable_dispatch"]
          ELSE /\ db' = db
               /\ req' = Respond(r, HTTP_500_SERVER_ERROR)
    /\ UNCHANGED <<instances, nextActivationId, nextInstanceId, nextJobId>>

\* activation.save(update_fields=[is_enabled, failure_count, status, ...]):
\* an UPDATE of these columns; it raises DatabaseError when no row is left
EnableSave(r) ==
    /\ req[r].pc = "enable_save"
    /\ LET pk == req[r].pk
           activation == req[r].activation
       IN IF db[pk].present
          THEN /\ db' = [db EXCEPT ![pk].is_enabled = activation.is_enabled,
                                   ![pk].failure_count = activation.failure_count,
                                   ![pk].status = activation.status]
               /\ req' = [req EXCEPT ![r].pc = "enable_dispatch"]
          ELSE /\ db' = db
               /\ req' = Respond(r, HTTP_500_SERVER_ERROR)
    /\ UNCHANGED <<instances, nextActivationId, nextInstanceId, nextJobId>>

EnableDispatch(r) ==
    /\ req[r].pc = "enable_dispatch"
    /\ nextJobId < MaxJobs
    /\ nextJobId' = nextJobId + 1
    /\ req' = [req EXCEPT
            ![r].sent = Append(@, ActivateJob(req[r].pk)),
            ![r].activation.current_job_id = nextJobId + 1,
            ![r].pc = "enable_save_job"]
    /\ UNCHANGED <<db, instances, nextActivationId, nextInstanceId>>

EnableSaveJob(r) ==
    /\ req[r].pc = "enable_save_job"
    /\ LET pk == req[r].pk
       IN IF db[pk].present
          THEN /\ db' = [db EXCEPT ![pk].current_job_id =
                                        req[r].activation.current_job_id]
               /\ req' = Respond(r, HTTP_204_NO_CONTENT)
          ELSE /\ db' = db
               /\ req' = Respond(r, HTTP_500_SERVER_ERROR)
    /\ UNCHANGED <<instances, nextActivationId, nextInstanceId, nextJobId>>

\* ---------------------------------------------------------------- disable
\* mutant: the is_enabled test is missing, every Disable disables
DisableEnabled_Always(activation) == TRUE

\* if activation.is_enabled: ... (otherwise straight to the 204)
DisableEnabled(activation) == activation.is_enabled

DisableLoad(r, pk) ==
    /\ Idle(r)
    /\ LET activation == db[pk]
           started == [IdleRequest EXCEPT !.op = "disable", !.pk = pk,
                !.activation = Fields(activation, {"present", "is_enabled",
                                                   "status"})]
       IN req' = [req EXCEPT ![r] =
            IF ~activation.present
            THEN Done(started, HTTP_404_NOT_FOUND)
            ELSE IF DisableEnabled(activation)
            THEN [started EXCEPT !.pc = "disable_save",
                                 !.activation.status = "STOPPING",
                                 !.activation.is_enabled = FALSE]
            ELSE Done(started, HTTP_204_NO_CONTENT)]
    /\ UNCHANGED <<db, instances, nextActivationId, nextInstanceId, nextJobId>>

\* mutant: status is missing from update_fields
DisableSave_StatusNotSaved(r) ==
    /\ req[r].pc = "disable_save"
    /\ LET pk == req[r].pk
           activation == req[r].activation
       IN IF db[pk].present
          THEN /\ db' = [db EXCEPT ![pk].is_enabled = activation.is_enabled]
               /\ req' = [req EXCEPT ![r].pc = "disable_dispatch"]
          ELSE /\ db' = db
               /\ req' = Respond(r, HTTP_500_SERVER_ERROR)
    /\ UNCHANGED <<instances, nextActivationId, nextInstanceId, nextJobId>>

\* activation.save(update_fields=[is_enabled, status, modified_at])
DisableSave(r) ==
    /\ req[r].pc = "disable_save"
    /\ LET pk == req[r].pk
           activation == req[r].activation
       IN IF db[pk].present
          THEN /\ db' = [db EXCEPT ![pk].is_enabled = activation.is_enabled,
                                   ![pk].status = activation.status]
               /\ req' = [req EXCEPT ![r].pc = "disable_dispatch"]
          ELSE /\ db' = db
               /\ req' = Respond(r, HTTP_500_SERVER_ERROR)
    /\ UNCHANGED <<instances, nextActivationId, nextInstanceId, nextJobId>>

DisableDispatch(r) ==
    /\ req[r].pc = "disable_dispatch"
    /\ nextJobId < MaxJobs
    /\ nextJobId' = nextJobId + 1
    /\ req' = [req EXCEPT ![r] =
            Done([req[r] EXCEPT !.sent =
                    Append(@, DeactivateJob(req[r].pk))],
                 HTTP_204_NO_CONTENT)]
    /\ UNCHANGED <<db, instances, nextActivationId, nextInstanceId>>

\* ---------------------------------------------------------------- restart
\* mutant: the is_enabled test is missing
RestartDisabled_Skipped(activation) == FALSE

\* if not activation.is_enabled: raise HttpForbidden
RestartDisabled(activation) == ~activation.is_enabled

RestartLoad(r, pk) ==
    /\ Idle(r)
    /\ LET activation == db[pk]
           started == [IdleRequest EXCEPT !.op = "restart", !.pk = pk,
                !.activation = Fields(activation, {"present", "restart_count"})]
       IN req' = [req EXCEPT ![r] =
            IF ~activation.present
            THEN Done(started, HTTP_404_NOT_FOUND)
            ELSE IF RestartDisabled(activation)
            THEN Done(started, HTTP_403_FORBIDDEN)
            ELSE [started EXCEPT !.pc = "restart_query"]]
    /\ UNCHANGED <<db, instances, nextActivationId, nextInstanceId, nextJobId>>

\* mutant: the query is not restricted to the instances of the Activation
RestartQuery_AnyActivation(r) ==
    /\ req[r].pc = "restart_query"
    /\ LET running == {i \in InstanceIds : /\ instances[i].present
                                           /\ instances[i].status = "RUNNING"}
       IN req' = [req EXCEPT
            ![r].instance_running = IF running = {} THEN 0 ELSE Min(running),
            ![r].pc = IF running = {} THEN "restart_activate"
                                      ELSE "restart_deactivate"]
    /\ UNCHANGED <<db, instances, nextActivationId, nextInstanceId, nextJobId>>

\* ActivationInstance.objects.filter(activation_id=pk, status=RUNNING).first()
\* (first() orders an unordered queryset by primary key)
RestartQuery(r) ==
    /\ req[r].pc = "restart_query"
    /\ LET running == RunningInstancesOf(req[r].pk)
       IN req' = [req EXCEPT
            ![r].instance_running = IF running = {} THEN 0 ELSE Min(running),
            ![r].pc = IF running = {} THEN "restart_activate"
                                      ELSE "restart_deactivate"]
    /\ UNCHANGED <<db, instances, nextActivationId, nextInstanceId, nextJobId>>

RestartDeactivate(r) ==
    /\ req[r].pc = "restart_deactivate"
    /\ nextJobId < MaxJobs
    /\ nextJobId' = nextJobId + 1
    /\ req' = [req EXCEPT
            ![r].sent = Append(@, DeactivateRulesetsJob(req[r].instance_running)),
            ![r].pc = "restart_activate"]
    /\ UNCHANGED <<db, instances, nextActivationId, nextInstanceId>>

\* mutant: the activate job is submitted as a restart
RestartActivate_IsRestart(r) ==
    /\ req[r].pc = "restart_activate"
    /\ nextJobId < MaxJobs
    /\ nextJobId' = nextJobId + 1
    /\ req' = [req EXCEPT
            ![r].sent = Append(@, [ActivateJob(req[r].pk) EXCEPT
                                        !.is_restart = TRUE]),
            ![r].pc = "restart_save"]
    /\ UNCHANGED <<db, instances, nextActivationId, nextInstanceId>>

RestartActivate(r) ==
    /\ req[r].pc = "restart_activate"
    /\ nextJobId < MaxJobs
    /\ nextJobId' = nextJobId + 1
    /\ req' = [req EXCEPT
            ![r].sent = Append(@, ActivateJob(req[r].pk)),
            ![r].pc = "restart_save"]
    /\ UNCHANGED <<db, instances, nextActivationId, nextInstanceId>>

\* mutant: the handle of the activate job is saved as well
RestartSave_StoresJob(r) ==
    /\ req[r].pc = "restart_save"
    /\ LET pk == req[r].pk
       IN IF db[pk].present
          THEN /\ db' = [db EXCEPT ![pk].restart_count =
                                        req[r].activation.restart_count + 1,
                                   ![pk].current_job_id = nextJobId]
               /\ req' = Respond(r, HTTP_204_NO_CONTENT)
          ELSE /\ db' = db
               /\ req' = Respond(r, HTTP_500_SERVER_ERROR)
    /\ UNCHANGED <<instances, nextActivationId, nextInstanceId, nextJobId>>

\* mutant: the increment is missing
RestartSave_NoIncrement(r) ==
    /\ req[r].pc = "restart_save"
    /\ LET pk == req[r].pk
       IN IF db[pk].present
          THEN /\ db' = [db EXCEPT ![pk].restart_count =
                                        req[r].activation.restart_count]
               /\ req' = Respond(r, HTTP_204_NO_CONTENT)
          ELSE /\ db' = db
               /\ req' = Respond(r, HTTP_500_SERVER_ERROR)
    /\ UNCHANGED <<instances, nextActivationId, nextInstanceId, nextJobId>>

\* activation.restart_count += 1; activation.save(update_fields=[...])
RestartSave(r) ==
    /\ req[r].pc = "restart_save"
    /\ LET pk == req[r].pk
       IN IF db[pk].present
          THEN /\ db' = [db EXCEPT ![pk].restart_count =
                                        req[r].activation.restart_count + 1]
               /\ req' = Respond(r, HTTP_204_NO_CONTENT)
          ELSE /\ db' = db
               /\ req' = Respond(r, HTTP_500_SERVER_ERROR)
    /\ UNCHANGED <<instances, nextActivationId, nextInstanceId, nextJobId>>

\* ---------------------------------------------------------------- destroy
\* DestroyModelMixin.destroy: get_object() (404), then perform_destroy
DestroyLoad(r, pk) ==
    /\ Idle(r)
    /\ LET activation == db[pk]
           started == [IdleRequest EXCEPT !.op = "destroy", !.pk = pk,
                !.activation = Fields(activation, {"present"})]
       IN req' = [req EXCEPT ![r] =
            IF ~activation.present
            THEN Done(started, HTTP_404_NOT_FOUND)
            ELSE [started EXCEPT !.pc = "destroy_query"]]
    /\ UNCHANGED <<db, instances, nextActivationId, nextInstanceId, nextJobId>>

\* mutant: only the RUNNING instances are selected
DestroyQuery_RunningOnly(r) ==
    /\ req[r].pc = "destroy_query"
    /\ req' = [req EXCEPT ![r].todo = RunningInstancesOf(req[r].pk),
                          ![r].pc = "destroy_loop"]
    /\ UNCHANGED <<db, instances, nextActivationId, nextInstanceId, nextJobId>>

\* the queryset is evaluated once, when the for loop starts
DestroyQuery(r) ==
    /\ req[r].pc = "destroy_query"
    /\ req' = [req EXCEPT ![r].todo = InstancesOf(req[r].pk),
                          ![r].pc = "destroy_loop"]
    /\ UNCHANGED <<db, instances, nextActivationId, nextInstanceId, nextJobId>>

\* one iteration of the loop; the queryset has no ordering, rows come in the
\* order the database returns them
DestroyDispatch(r) ==
    /\ req[r].pc = "destroy_loop"
    /\ req[r].todo # {}
    /\ nextJobId < MaxJobs
    /\ nextJobId' = nextJobId + 1
    /\ \E i \in req[r].todo :
         req' = [req EXCEPT
            ![r].sent = Append(@, DeactivateRulesetsJob(i)),
            ![r].todo = @ \ {i}]
    /\ UNCHANGED <<db, instances, nextActivationId, nextInstanceId>>

\* super().perform_destroy(activation): activation.delete(), which cascades
\* to the ActivationInstance rows of the activation
DestroyDelete(r) ==
    /\ req[r].pc = "destroy_loop"
    /\ req[r].todo = {}
    /\ LET pk == req[r].pk
       IN /\ db' = [db EXCEPT ![pk] = NoRow]
          /\ instances' = [i \in InstanceIds |->
                              IF i \in InstancesOf(pk) THEN NoInstance
                                                       ELSE instances[i]]
    /\ req' = Respond(r, HTTP_204_NO_CONTENT)
    /\ UNCHANGED <<nextActivationId, nextInstanceId, nextJobId>>

\* ---------------------------------------------------------------- response
\* the response has been sent; the slot serves the next request
Return(r) ==
    /\ req[r].pc = "done"
    /\ req' = [req EXCEPT ![r] = IdleRequest]
    /\ UNCHANGED <<db, instances, nextActivationId, nextInstanceId, nextJobId>>

\* ---------------------------------------------------------------- workers
\* The task workers (aap_eda.tasks.ruleset) report the observed state of a
\* run: they move the status of the Activation, count its failures, create
\* an ActivationInstance when a run starts and move its status.
WorkerSetStatus(pk, s) ==
    /\ db[pk].present
    /\ db[pk].status # s
    /\ db' = [db EXCEPT ![pk].status = s]
    /\ UNCHANGED <<instances, req, nextActivationId, nextInstanceId, nextJobId>>

WorkerCountFailure(pk) ==
    /\ db[pk].present
    /\ db[pk].failure_count < MaxFailureCount
    /\ db' = [db EXCEPT ![pk].failure_count = @ + 1]
    /\ UNCHANGED <<instances, req, nextActivationId, nextInstanceId, nextJobId>>

WorkerStartInstance(pk) ==
    /\ db[pk].present
    /\ nextInstanceId < MaxInstances
    /\ nextInstanceId' = nextInstanceId + 1
    /\ instances' = [instances EXCEPT ![nextInstanceId + 1] =
            [present |-> TRUE, activation_id |-> pk, status |-> "RUNNING"]]
    /\ UNCHANGED <<db, req, nextActivationId, nextJobId>>

WorkerStopInstance(i) ==
    /\ instances[i].present
    /\ instances[i].status = "RUNNING"
    /\ instances' = [instances EXCEPT ![i].status = "STOPPED"]
    /\ UNCHANGED <<db, req, nextActivationId, nextInstanceId, nextJobId>>

\* ---------------------------------------------------------------- next
\* Spec leaves the rq queues out: a job a view submits is recorded in the
\* request (sent) and counted (nextJobId), and the workers act at any time.
Next ==
    \/ \E r \in ReqIds, e \in BOOLEAN :
          CreateInsert(r, [NoData EXCEPT !.is_enabled = e], FALSE)
              /\ UNCHANGED <<queue, logs>>
    \/ \E r \in ReqIds : CreateDispatch(r) /\ UNCHANGED <<queue, logs>>
    \/ \E r \in ReqIds, pk \in ActivationIds :
          EnableLoad(r, pk) /\ UNCHANGED <<queue, logs>>
    \/ \E r \in ReqIds : EnableSave(r) /\ UNCHANGED <<queue, logs>>
    \/ \E r \in ReqIds : EnableDispatch(r) /\ UNCHANGED <<queue, logs>>
    \/ \E r \in ReqIds : EnableSaveJob(r) /\ UNCHANGED <<queue, logs>>
    \/ \E r \in ReqIds, pk \in ActivationIds :
          DisableLoad(r, pk) /\ UNCHANGED <<queue, logs>>
    \/ \E r \in ReqIds : DisableSave(r) /\ UNCHANGED <<queue, logs>>
    \/ \E r \in ReqIds : DisableDispatch(r) /\ UNCHANGED <<queue, logs>>
    \/ \E r \in ReqIds, pk \in ActivationIds :
          RestartLoad(r, pk) /\ UNCHANGED <<queue, logs>>
    \/ \E r \in ReqIds : RestartQuery(r) /\ UNCHANGED <<queue, logs>>
    \/ \E r \in ReqIds : RestartDeactivate(r) /\ UNCHANGED <<queue, logs>>
    \/ \E r \in ReqIds : RestartActivate(r) /\ UNCHANGED <<queue, logs>>
    \/ \E r \in ReqIds : RestartSave(r) /\ UNCHANGED <<queue, logs>>
    \/ \E r \in ReqIds, pk \in ActivationIds :
          DestroyLoad(r, pk) /\ UNCHANGED <<queue, logs>>
    \/ \E r \in ReqIds : DestroyQuery(r) /\ UNCHANGED <<queue, logs>>
    \/ \E r \in ReqIds : DestroyDispatch(r) /\ UNCHANGED <<queue, logs>>
    \/ \E r \in ReqIds : DestroyDelete(r) /\ UNCHANGED <<queue, logs>>
    \/ \E r \in ReqIds : Return(r) /\ UNCHANGED <<queue, logs>>
    \/ \E pk \in ActivationIds, s \in ActivationStatus :
          WorkerSetStatus(pk, s) /\ UNCHANGED <<queue, logs>>
    \/ \E pk \in ActivationIds : WorkerCountFailure(pk) /\ UNCHANGED <<queue, logs>>
    \/ \E pk \in ActivationIds : WorkerStartInstance(pk) /\ UNCHANGED <<queue, logs>>
    \/ \E i \in InstanceIds : WorkerStopInstance(i) /\ UNCHANGED <<queue, logs>>

Spec == Init /\ [][Next]_vars

\* ---------------------------------------------------------------- job queue
\* SpecJobs adds the rq queues ("default" and "activation", served by
\* separate workers, so jobs are taken in no fixed order): a job a view
\* submits waits in the queue until a worker takes it, and an
\* ActivationInstance is created only by a worker that took an activate job.
Submit(job) == [queue EXCEPT ![job] = @ + 1]

Take(job) == [queue EXCEPT ![job] = @ - 1]

\* the job the request of slot r submits in this step, if it submits one,
\* is put in the queue
Enqueue(r) ==
    queue' = IF Len(req'[r].sent) = Len(req[r].sent) + 1
             THEN Submit(req'[r].sent[Len(req'[r].sent)])
             ELSE queue

\* a worker takes an activate job and starts a run of the Activation, if
\* the Activation still exists
RunActivateRulesets(pk) ==
    /\ queue[ActivateJob(pk)] > 0
    /\ queue' = Take(ActivateJob(pk))
    /\ IF db[pk].present
       THEN /\ nextInstanceId < MaxInstances
            /\ nextInstanceId' = nextInstanceId + 1
            /\ instances' = [instances EXCEPT ![nextInstanceId + 1] =
                    [present |-> TRUE, activation_id |-> pk,
                     status |-> "RUNNING"]]
       ELSE UNCHANGED <<instances, nextInstanceId>>
    /\ UNCHANGED <<db, req, nextActivationId, nextJobId>>

\* a worker takes a deactivate_rulesets job and stops the run of the instance
RunDeactivateRulesets(i) ==
    /\ queue[DeactivateRulesetsJob(i)] > 0
    /\ queue' = Take(DeactivateRulesetsJob(i))
    /\ instances' = IF instances[i].present
                    THEN [instances EXCEPT ![i].status = "STOPPED"]
                    ELSE instances
    /\ UNCHANGED <<db, req, nextActivationId, nextInstanceId, nextJobId>>

\* a worker takes a deactivate job and stops the runs of the Activation
RunDeactivate(pk) ==
    /\ queue[DeactivateJob(pk)] > 0
    /\ queue' = Take(DeactivateJob(pk))
    /\ instances' = [i \in InstanceIds |->
            IF i \in InstancesOf(pk)
            THEN [instances[i] EXCEPT !.status = "STOPPED"]
            ELSE instances[i]]
    /\ UNCHANGED <<db, req, nextActivationId, nextInstanceId, nextJobId>>

NextJobs ==
    \/ \E r \in ReqIds, e \in BOOLEAN :
          CreateInsert(r, [NoData EXCEPT !.is_enabled = e], FALSE)
              /\ Enqueue(r) /\ UNCHANGED logs
    \/ \E r \in ReqIds : CreateDispatch(r) /\ Enqueue(r) /\ UNCHANGED logs
    \/ \E r \in ReqIds, pk \in ActivationIds : EnableLoad(r, pk) /\ Enqueue(r) /\ UNCHANGED logs
    \/ \E r \in ReqIds : EnableSave(r) /\ Enqueue(r) /\ UNCHANGED logs
    \/ \E r \in ReqIds : EnableDispatch(r) /\ Enqueue(r) /\ UNCHANGED logs
    \/ \E r \in ReqIds : EnableSaveJob(r) /\ Enqueue(r) /\ UNCHANGED logs
    \/ \E r \in ReqIds, pk \in ActivationIds : DisableLoad(r, pk) /\ Enqueue(r) /\ UNCHANGED logs
    \/ \E r \in ReqIds : DisableSave(r) /\ Enqueue(r) /\ UNCHANGED logs
    \/ \E r \in ReqIds : DisableDispatch(r) /\ Enqueue(r) /\ UNCHANGED logs
    \/ \E r \in ReqIds, pk \in ActivationIds : RestartLoad(r, pk) /\ Enqueue(r) /\ UNCHANGED logs
    \/ \E r \in ReqIds : RestartQuery(r) /\ Enqueue(r) /\ UNCHANGED logs
    \/ \E r \in ReqIds : RestartDeactivate(r) /\ Enqueue(r) /\ UNCHANGED logs
    \/ \E r \in ReqIds : RestartActivate(r) /\ Enqueue(r) /\ UNCHANGED logs
    \/ \E r \in ReqIds : RestartSave(r) /\ Enqueue(r) /\ UNCHANGED logs
    \/ \E r \in ReqIds, pk \in ActivationIds : DestroyLoad(r, pk) /\ Enqueue(r) /\ UNCHANGED logs
    \/ \E r \in ReqIds : DestroyQuery(r) /\ Enqueue(r) /\ UNCHANGED logs
    \/ \E r \in ReqIds : DestroyDispatch(r) /\ Enqueue(r) /\ UNCHANGED logs
    \/ \E r \in ReqIds : DestroyDelete(r) /\ Enqueue(r) /\ UNCHANGED logs
    \/ \E r \in ReqIds : Return(r) /\ UNCHANGED <<queue, logs>>
    \/ \E pk \in ActivationIds, s \in ActivationStatus :
          WorkerSetStatus(pk, s) /\ UNCHANGED <<queue, logs>>
    \/ \E pk \in ActivationIds : WorkerCountFailure(pk) /\ UNCHANGED <<queue, logs>>
    \/ \E i \in InstanceIds : WorkerStopInstance(i) /\ UNCHANGED <<queue, logs>>
    \/ \E pk \in ActivationIds : RunActivateRulesets(pk) /\ UNCHANGED logs
    \/ \E i \in InstanceIds : RunDeactivateRulesets(i) /\ UNCHANGED logs
    \/ \E pk \in ActivationIds : RunDeactivate(pk) /\ UNCHANGED logs

SpecJobs == Init /\ [][NextJobs]_vars

\* ---------------------------------------------------------------- create
\* SpecCreate: Create requests with every body, the constraint failures
\* of the insert included
NextCreate ==
    \/ \E r \in ReqIds, validated_data \in ValidatedData, fails \in BOOLEAN :
          CreateInsert(r, validated_data, fails) /\ UNCHANGED <<queue, logs>>
    \/ \E r \in ReqIds : CreateDispatch(r) /\ UNCHANGED <<queue, logs>>
    \/ \E r \in ReqIds : Return(r) /\ UNCHANGED <<queue, logs>>

SpecCreate == Init /\ [][NextCreate]_vars

\* ---------------------------------------------------------------- list
\* the Activations believed RUNNING, which the monitor examines
BelievedRunning ==
    {pk \in ActivationIds : db[pk].present /\ db[pk].status = "RUNNING"}

\* those of them no run of which is RUNNING: no heartbeat arrives any more
Dead == {pk \in BelievedRunning : RunningInstancesOf(pk) = {}}

\* aap_eda.tasks.ruleset.monitor_activations(), called as a plain function:
\* every examined Activation whose last heartbeat is older than the timeout
\* (stale) is marked UNRESPONSIVE; the restart policy it then applies is
\* left out
monitor_activations(activations, stale) ==
    [pk \in DOMAIN activations |->
        IF pk \in stale
        THEN [activations[pk] EXCEPT !.status = "UNRESPONSIVE"]
        ELSE activations[pk]]

\* mutant: list() does not call the monitor
ListMonitor_Skipped(r, stale) ==
    /\ Idle(r)
    /\ Dead \subseteq stale
    /\ db' = db
    /\ req' = [req EXCEPT ![r] =
            [IdleRequest EXCEPT !.op = "list", !.pc = "list_read"]]
    /\ UNCHANGED <<instances, nextActivationId, nextInstanceId, nextJobId>>

\* list(): monitor_activations() runs to its end before anything is read;
\* stale holds the dead Activations and any other whose worker is silent
ListMonitor(r, stale) ==
    /\ Idle(r)
    /\ Dead \subseteq stale
    /\ db' = monitor_activations(db, stale)
    /\ req' = [req EXCEPT ![r] =
            [IdleRequest EXCEPT !.op = "list", !.pc = "list_read"]]
    /\ UNCHANGED <<instances, nextActivationId, nextInstanceId, nextJobId>>

\* the values of the ruleset_stats column: ruleset -> its two counters
RulesetStats ==
    UNION {[names -> [numberOfRules : 0..MaxRules,
                      rulesTriggered : 0..MaxRules]] :
                names \in SUBSET (1..MaxRulesets)}

\* the for loop of _get_rules_count over the entries not yet visited
RECURSIVE RulesCountLoop(_, _, _, _)
RulesCountLoop(ruleset_stats, names, rules_count, rules_fired_count) ==
    IF names = {}
    THEN <<rules_count, rules_fired_count>>
    ELSE LET name == CHOOSE n \in names : TRUE
             ruleset_stat == ruleset_stats[name]
         IN RulesCountLoop(ruleset_stats, names \ {name},
                           rules_count + ruleset_stat.numberOfRules,
                           rules_fired_count + ruleset_stat.rulesTriggered)

\* mutant: the two sums are returned in the other order
get_rules_count_Swapped(ruleset_stats) ==
    <<RulesCountLoop(ruleset_stats, DOMAIN ruleset_stats, 0, 0)[2],
      RulesCountLoop(ruleset_stats, DOMAIN ruleset_stats, 0, 0)[1]>>

\* _get_rules_count: the two counters start at 0 and the loop adds the
\* entries of ruleset_stats.values() to them one by one
get_rules_count(ruleset_stats) ==
    RulesCountLoop(ruleset_stats, DOMAIN ruleset_stats, 0, 0)

\* the Activations of the table
Activations == {pk \in ActivationIds : db[pk].present}

\* a row as the responses of list and retrieve show it
Serialized(pk, ruleset_stats) ==
    [id |-> pk, status |-> db[pk].status, is_enabled |-> db[pk].is_enabled,
     ruleset_stats |-> ruleset_stats,
     rules_count |-> get_rules_count(ruleset_stats)[1],
     rules_fired_count |-> get_rules_count(ruleset_stats)[2]]

\* super().list(request) reads the rows (ruleset_stats: what their
\* ruleset_stats columns hold); the view adds the two counts to each
ListRead(r, ruleset_stats) ==
    /\ req[r].pc = "list_read"
    /\ DOMAIN ruleset_stats = Activations
    /\ req' = [req EXCEPT ![r] =
            [Done(req[r], HTTP_200_OK) EXCEPT
                !.data = [pk \in Activations |->
                            Serialized(pk, ruleset_stats[pk])]]]
    /\ UNCHANGED <<db, instances, nextActivationId, nextInstanceId, nextJobId>>

\* retrieve(): super().retrieve (404 when there is no such row), then the
\* two counts are added
Retrieve(r, pk, ruleset_stats) ==
    /\ Idle(r)
    /\ LET started == [IdleRequest EXCEPT !.op = "retrieve", !.pk = pk]
       IN req' = [req EXCEPT ![r] =
            IF ~db[pk].present
            THEN Done(started, HTTP_404_NOT_FOUND)
            ELSE [Done(started, HTTP_200_OK) EXCEPT
                    !.data = Serialized(pk, ruleset_stats)]]
    /\ UNCHANGED <<db, instances, nextActivationId, nextInstanceId, nextJobId>>

\* SpecList: List requests among Creates and the workers; the ruleset_stats
\* columns are left empty
NextList ==
    \/ \E r \in ReqIds, e \in BOOLEAN :
          CreateInsert(r, [NoData EXCEPT !.is_enabled = e], FALSE)
              /\ UNCHANGED <<queue, logs>>
    \/ \E r \in ReqIds : CreateDispatch(r) /\ UNCHANGED <<queue, logs>>
    \/ \E r \in ReqIds, stale \in SUBSET BelievedRunning :
          ListMonitor(r, stale) /\ UNCHANGED <<queue, logs>>
    \/ \E r \in ReqIds :
          ListRead(r, [pk \in Activations |-> <<>>]) /\ UNCHANGED <<queue, logs>>
    \/ \E r \in ReqIds : Return(r) /\ UNCHANGED <<queue, logs>>
    \/ \E pk \in ActivationIds, s \in ActivationStatus :
          WorkerSetStatus(pk, s) /\ UNCHANGED <<queue, logs>>
    \/ \E pk \in ActivationIds : WorkerStartInstance(pk) /\ UNCHANGED <<queue, logs>>
    \/ \E i \in InstanceIds : WorkerStopInstance(i) /\ UNCHANGED <<queue, logs>>

SpecList == Init /\ [][NextList]_vars

\* SpecRules: Retrieve and List requests over every value of the
\* ruleset_stats columns
NextRules ==
    \/ \E r \in ReqIds, e \in BOOLEAN :
          CreateInsert(r, [NoData EXCEPT !.is_enabled = e], FALSE)
              /\ UNCHANGED <<queue, logs>>
    \/ \E r \in ReqIds : CreateDispatch(r) /\ UNCHANGED <<queue, logs>>
    \/ \E r \in ReqIds, stale \in SUBSET BelievedRunning :
          ListMonitor(r, stale) /\ UNCHANGED <<queue, logs>>
    \/ \E r \in ReqIds, ruleset_stats \in [Activations -> RulesetStats] :
          ListRead(r, ruleset_stats) /\ UNCHANGED <<queue, logs>>
    \/ \E r \in ReqIds, pk \in ActivationIds, ruleset_stats \in RulesetStats :
          Retrieve(r, pk, ruleset_stats) /\ UNCHANGED <<queue, logs>>
    \/ \E r \in ReqIds : Return(r) /\ UNCHANGED <<queue, logs>>

SpecRules == Init /\ [][NextRules]_vars

\* ---------------------------------------------------------------- logs
\* SpecLogs adds the table ActivationInstanceLog, which the workers append
\* to and the views only read, and the two sub-resource views.
NoLog == [present |-> FALSE, activation_instance_id |-> 0]

\* a worker appends a line to the log of a run
WorkerWriteLog(i) ==
    /\ instances[i].present
    /\ \E l \in LogIds :
          /\ ~logs[l].present
          /\ \A k \in LogIds : logs[k].present => k < l
          /\ logs' = [logs EXCEPT ![l] =
                        [present |-> TRUE, activation_instance_id |-> i]]
    /\ UNCHANGED <<db, instances, req, nextActivationId, nextInstanceId,
                   nextJobId>>

\* the rows of ActivationInstanceLog go with the ActivationInstance they
\* belong to when it is deleted
CascadeLogs ==
    logs' = [l \in LogIds |->
                IF /\ logs[l].present
                   /\ ~instances'[logs[l].activation_instance_id].present
                THEN NoLog
                ELSE logs[l]]

\* ActivationInstanceViewSet.destroy (DestroyModelMixin)
InstanceDestroy(r, id) ==
    /\ Idle(r)
    /\ LET started == [IdleRequest EXCEPT !.op = "instance_destroy",
                                          !.pk = id]
       IN IF id \in InstanceIds /\ instances[id].present
          THEN /\ instances' = [instances EXCEPT ![id] = NoInstance]
               /\ req' = [req EXCEPT ![r] = Done(started, HTTP_204_NO_CONTENT)]
          ELSE /\ instances' = instances
               /\ req' = [req EXCEPT ![r] = Done(started, HTTP_404_NOT_FOUND)]
    /\ UNCHANGED <<db, nextActivationId, nextInstanceId, nextJobId>>

RECURSIVE OrderById_Descending(_)
\* mutant: the largest id first
OrderById_Descending(ids) ==
    IF ids = {}
    THEN <<>>
    ELSE LET last == CHOOSE x \in ids : \A y \in ids : y <= x
         IN <<last>> \o OrderById_Descending(ids \ {last})

RECURSIVE OrderById(_)
\* .order_by("id"): the rows of a query, which come in no order of their
\* own, sorted by ascending id
OrderById(ids) ==
    IF ids = {}
    THEN <<>>
    ELSE <<Min(ids)>> \o OrderById(ids \ {Min(ids)})

\* self.paginate_queryset: the first page
paginate_queryset(results) ==
    SubSeq(results, 1, IF Len(results) < PAGE_SIZE THEN Len(results)
                                                   ELSE PAGE_SIZE)

\* logs(): ActivationInstance.objects.filter(pk=id).exists(), NotFound if not
LogsExists(r, id) ==
    /\ Idle(r)
    /\ LET started == [IdleRequest EXCEPT !.op = "logs", !.pk = id]
           instance_exists == id \in InstanceIds /\ instances[id].present
       IN req' = [req EXCEPT ![r] =
            IF ~instance_exists
            THEN Done(started, HTTP_404_NOT_FOUND)
            ELSE [started EXCEPT !.pc = "logs_read"]]
    /\ UNCHANGED <<db, instances, nextActivationId, nextInstanceId, nextJobId>>

\* logs(): the lines with activation_instance_id=id, ordered by id, one page
LogsRead(r) ==
    /\ req[r].pc = "logs_read"
    /\ LET activation_instance_logs ==
               OrderById({l \in LogIds :
                    /\ logs[l].present
                    /\ logs[l].activation_instance_id = req[r].pk})
           results == paginate_queryset(activation_instance_logs)
       IN req' = [req EXCEPT ![r] =
            [Done(req[r], HTTP_200_OK) EXCEPT
                !.data = [n \in 1..Len(results) |->
                    [id |-> results[n],
                     activation_instance_id |->
                        logs[results[n]].activation_instance_id]]]]
    /\ UNCHANGED <<db, instances, nextActivationId, nextInstanceId, nextJobId>>

\* instances(): Activation.objects.filter(id=id).exists(), NotFound if not
InstancesExists(r, id) ==
    /\ Idle(r)
    /\ LET started == [IdleRequest EXCEPT !.op = "instances", !.pk = id]
           activation_exists == id \in ActivationIds /\ db[id].present
       IN req' = [req EXCEPT ![r] =
            IF ~activation_exists
            THEN Done(started, HTTP_404_NOT_FOUND)
            ELSE [started EXCEPT !.pc = "instances_read"]]
    /\ UNCHANGED <<db, instances, nextActivationId, nextInstanceId, nextJobId>>

\* instances(): the rows with activation_id=id; the query gives them no order
InstancesRead(r) ==
    /\ req[r].pc = "instances_read"
    /\ req' = [req EXCEPT ![r] =
            [Done(req[r], HTTP_200_OK) EXCEPT
                !.data = {[id |-> i,
                           activation_id |-> instances[i].activation_id,
                           status |-> instances[i].status] :
                                i \in InstancesOf(req[r].pk)}]]
    /\ UNCHANGED <<db, instances, nextActivationId, nextInstanceId, nextJobId>>

NextLogs ==
    \/ \E r \in ReqIds :
          CreateInsert(r, NoData, FALSE) /\ UNCHANGED <<queue, logs>>
    \/ \E pk \in ActivationIds :
          WorkerStartInstance(pk) /\ UNCHANGED <<queue, logs>>
    \/ \E i \in InstanceIds : WorkerWriteLog(i) /\ UNCHANGED queue
    \/ \E r \in ReqIds, id \in 1..(MaxInstances + 1) :
          InstanceDestroy(r, id) /\ CascadeLogs /\ UNCHANGED queue
    \/ \E r \in ReqIds, id \in 1..(MaxInstances + 1) :
          LogsExists(r, id) /\ UNCHANGED <<queue, logs>>
    \/ \E r \in ReqIds : LogsRead(r) /\ UNCHANGED <<queue, logs>>
    \/ \E r \in ReqIds, id \in 1..(MaxActivations + 1) :
          InstancesExists(r, id) /\ UNCHANGED <<queue, logs>>
    \/ \E r \in ReqIds : InstancesRead(r) /\ UNCHANGED <<queue, logs>>
    \/ \E r \in ReqIds : Return(r) /\ UNCHANGED <<queue, logs>>

SpecLogs == Init /\ [][NextLogs]_vars

\* ---------------------------------------------------------------- two ids
\* SpecTwo: requests on Activations of different ids. Every Activation has
\* been created before, has had a run started, and is enabled or not and
\* stopped or running.
TwoActivationIds == 1..(MaxActivations + 1)

InitTwo ==
    /\ db \in [TwoActivationIds ->
                {[NoRow EXCEPT !.present = TRUE, !.is_enabled = e,
                               !.status = s] :
                    e \in BOOLEAN, s \in {"STOPPED", "RUNNING"}}]
    /\ instances \in [InstanceIds ->
                {[present |-> TRUE, activation_id |-> pk,
                  status |-> "RUNNING"] : pk \in TwoActivationIds}]
    /\ \A pk \in TwoActivationIds : InstancesOf(pk) # {}
    /\ req = [r \in ReqIds |-> IdleRequest]
    /\ nextActivationId = MaxActivations + 1
    /\ nextInstanceId = MaxInstances
    /\ nextJobId = 0
    /\ queue = [job \in Jobs |-> 0]
    /\ logs = [l \in LogIds |->
                [present |-> FALSE, activation_instance_id |-> 0]]

\* the next step of the handler that serves the request of slot r
Continue(r) ==
    \/ EnableSave(r) \/ EnableDispatch(r) \/ EnableSaveJob(r)
    \/ DisableSave(r) \/ DisableDispatch(r)
    \/ RestartQuery(r) \/ RestartDeactivate(r) \/ RestartActivate(r)
    \/ RestartSave(r)
    \/ DestroyQuery(r) \/ DestroyDispatch(r) \/ DestroyDelete(r)

NextTwo ==
    \/ \E r \in ReqIds, pk \in TwoActivationIds :
          EnableLoad(r, pk) /\ UNCHANGED <<queue, logs>>
    \/ \E r \in ReqIds, pk \in TwoActivationIds :
          DisableLoad(r, pk) /\ UNCHANGED <<queue, logs>>
    \/ \E r \in ReqIds, pk \in TwoActivationIds :
          RestartLoad(r, pk) /\ UNCHANGED <<queue, logs>>
    \/ \E r \in ReqIds, pk \in TwoActivationIds :
          DestroyLoad(r, pk) /\ UNCHANGED <<queue, logs>>
    \/ \E r \in ReqIds : EnableSave(r) /\ UNCHANGED <<queue, logs>>
    \/ \E r \in ReqIds : EnableDispatch(r) /\ UNCHANGED <<queue, logs>>
    \/ \E r \in ReqIds : EnableSaveJob(r) /\ UNCHANGED <<queue, logs>>
    \/ \E r \in ReqIds : DisableSave(r) /\ UNCHANGED <<queue, logs>>
    \/ \E r \in ReqIds : DisableDispatch(r) /\ UNCHANGED <<queue, logs>>
    \/ \E r \in ReqIds : RestartQuery(r) /\ UNCHANGED <<queue, logs>>
    \/ \E r \in ReqIds : RestartDeactivate(r) /\ UNCHANGED <<queue, logs>>
    \/ \E r \in ReqIds : RestartActivate(r) /\ UNCHANGED <<queue, logs>>
    \/ \E r \in ReqIds : RestartSave(r) /\ UNCHANGED <<queue, logs>>
    \/ \E r \in ReqIds : DestroyQuery(r) /\ UNCHANGED <<queue, logs>>
    \/ \E r \in ReqIds : DestroyDispatch(r) /\ UNCHANGED <<queue, logs>>
    \/ \E r \in ReqIds : DestroyDelete(r) /\ UNCHANGED <<queue, logs>>
    \/ \E r \in ReqIds : Return(r) /\ UNCHANGED <<queue, logs>>

SpecTwo == InitTwo /\ [][NextTwo]_vars

\* ---------------------------------------------------------------- restarts
\* SpecRestart: the requests and the workers of Spec on an Activation that
\* was created enabled earlier and whose count of restarts is 0; the
\* sequences of instance and job ids count from here
InitRestart ==
    /\ db \in [ActivationIds ->
                {[NoRow EXCEPT !.present = TRUE, !.is_enabled = TRUE,
                               !.status = s] : s \in ActivationStatus}]
    /\ instances = [i \in InstanceIds |-> NoInstance]
    /\ req = [r \in ReqIds |-> IdleRequest]
    /\ nextActivationId = MaxActivations
    /\ nextInstanceId = 0
    /\ nextJobId = 0
    /\ queue = [job \in Jobs |-> 0]
    /\ logs = [l \in LogIds |->
                [present |-> FALSE, activation_instance_id |-> 0]]

NextRestart ==
    \/ \E r \in ReqIds, pk \in ActivationIds :
          EnableLoad(r, pk) /\ UNCHANGED <<queue, logs>>
    \/ \E r \in ReqIds : EnableSave(r) /\ UNCHANGED <<queue, logs>>
    \/ \E r \in ReqIds : EnableDispatch(r) /\ UNCHANGED <<queue, logs>>
    \/ \E r \in ReqIds : EnableSaveJob(r) /\ UNCHANGED <<queue, logs>>
    \/ \E r \in ReqIds, pk \in ActivationIds :
          DisableLoad(r, pk) /\ UNCHANGED <<queue, logs>>
    \/ \E r \in ReqIds : DisableSave(r) /\ UNCHANGED <<queue, logs>>
    \/ \E r \in ReqIds : DisableDispatch(r) /\ UNCHANGED <<queue, logs>>
    \/ \E r \in ReqIds, pk \in ActivationIds :
          RestartLoad(r, pk) /\ UNCHANGED <<queue, logs>>
    \/ \E r \in ReqIds : RestartQuery(r) /\ UNCHANGED <<queue, logs>>
    \/ \E r \in ReqIds : RestartDeactivate(r) /\ UNCHANGED <<queue, logs>>
    \/ \E r \in ReqIds : RestartActivate(r) /\ UNCHANGED <<queue, logs>>
    \/ \E r \in ReqIds : RestartSave(r) /\ UNCHANGED <<queue, logs>>
    \/ \E r \in ReqIds, pk \in ActivationIds :
          DestroyLoad(r, pk) /\ UNCHANGED <<queue, logs>>
    \/ \E r \in ReqIds : DestroyQuery(r) /\ UNCHANGED <<queue, logs>>
    \/ \E r \in ReqIds : DestroyDispatch(r) /\ UNCHANGED <<queue, logs>>
    \/ \E r \in ReqIds : DestroyDelete(r) /\ UNCHANGED <<queue, logs>>
    \/ \E r \in ReqIds : Return(r) /\ UNCHANGED <<queue, logs>>
    \/ \E pk \in ActivationIds, s \in ActivationStatus :
          WorkerSetStatus(pk, s) /\ UNCHANGED <<queue, logs>>
    \/ \E pk \in ActivationIds :
          WorkerCountFailure(pk) /\ UNCHANGED <<queue, logs>>
    \/ \E pk \in ActivationIds :
          WorkerStartInstance(pk) /\ UNCHANGED <<queue, logs>>
    \/ \E i \in InstanceIds : WorkerStopInstance(i) /\ UNCHANGED <<queue, logs>>

SpecRestart == InitRestart /\ [][NextRestart]_vars

\* ================================================================ claims
\* The request served by slot r starts in this step as operation op on pk:
\* the step is the handler's first query, get_object_or_404.
Loads(r, op, pk) ==
    /\ req[r].pc = "idle"
    /\ req'[r].op = op
    /\ req'[r].pk = pk

\* slot r moves from position `from` to position `to` in this step
Moves(r, from, to) ==
    /\ req[r].pc = from
    /\ req'[r].pc = to

\* the step submits no job and writes no table
NothingWritten ==
    /\ db' = db
    /\ instances' = instances
    /\ nextJobId' = nextJobId

\* the request of slot r has returned `code` having submitted the jobs `jobs`
Returned(q, op, code, jobs) ==
    /\ q.pc = "done"
    /\ q.op = op
    /\ q.resp = code
    /\ q.sent = jobs

\* ---------------------------------------------------------------- C1
\* C1 as stated: Enable on an Activation whose status is one of STARTING,
\* STOPPING, PENDING, RUNNING, UNRESPONSIVE returns Conflict, changes no
\* column of the record and dispatches no job.
C1_EnableBusyConflict ==
    [][\A r \in ReqIds, pk \in ActivationIds :
        ( /\ Loads(r, "enable", pk)
          /\ db[pk].present
          /\ db[pk].status \in
                {"STARTING", "STOPPING", "PENDING", "RUNNING", "UNRESPONSIVE"} )
        => /\ Returned(req'[r], "enable", 409, <<>>)
           /\ NothingWritten]_vars

\* C1 amended: Enable on a DISABLED Activation whose status is one of
\* STARTING, STOPPING, PENDING, RUNNING, UNRESPONSIVE returns Conflict; on an
\* enabled Activation with such a status it returns success (204).  In both
\* cases no column of the record changes and no job is dispatched.
C1_EnableBusyConflictWhenDisabled ==
    [][\A r \in ReqIds, pk \in ActivationIds :
        ( /\ Loads(r, "enable", pk)
          /\ db[pk].present
          /\ db[pk].status \in
                {"STARTING", "STOPPING", "PENDING", "RUNNING", "UNRESPONSIVE"} )
        => /\ Returned(req'[r], "enable",
                       IF db[pk].is_enabled THEN 204 ELSE 409, <<>>)
           /\ NothingWritten]_vars

\* C1 witness: an Enable has returned Conflict on a disabled Activation that
\* a worker had reported UNRESPONSIVE, and nothing was dispatched for it.
C1_Witness ==
    \E r \in ReqIds :
        /\ Returned(req[r], "enable", 409, <<>>)
        /\ db[req[r].pk].present
        /\ ~db[req[r].pk].is_enabled
        /\ db[req[r].pk].status = "UNRESPONSIVE"
        /\ nextJobId = 0

\* ---------------------------------------------------------------- C2
\* C2 as stated: Enable on an Activation whose status is one of STOPPED,
\* FAILED, COMPLETED, ERROR, or that is already enabled, goes on to persist
\* is_enabled = true, failure_count = 0, status = PENDING and dispatches
\* exactly one activate job (is_restart = false): it never returns success
\* without that dispatch.
C2_EnableResetsAndDispatches ==
    /\ [][\A r \in ReqIds, pk \in ActivationIds :
            ( /\ Loads(r, "enable", pk)
              /\ db[pk].present
              /\ \/ db[pk].status \in {"STOPPED", "FAILED", "COMPLETED", "ERROR"}
                 \/ db[pk].is_enabled )
            => req'[r].pc = "enable_save"]_vars
    /\ [](\A r \in ReqIds :
            (req[r].pc = "done" /\ req[r].op = "enable" /\ req[r].resp = 204)
            => req[r].sent = <<[task |-> "activate_rulesets",
                                target |-> req[r].pk, is_restart |-> FALSE]>>)

\* C2 amended: Enable on a DISABLED Activation whose status is one of
\* STOPPED, FAILED, COMPLETED, ERROR persists is_enabled = true,
\* failure_count = 0, status = PENDING (no other column), then dispatches one
\* activate job (is_restart = false) for the Activation, then persists the
\* job handle; when it returns success it has dispatched exactly that one
\* job.  (An Enable on an already enabled Activation does none of this.)
C2_EnableDisabledResetsAndDispatches ==
    /\ [][\A r \in ReqIds :
          LET pk == req'[r].pk
              activate == [task |-> "activate_rulesets", target |-> pk,
                           is_restart |-> FALSE]
          IN /\ \A a \in ActivationIds :
                  ( /\ Loads(r, "enable", a)
                    /\ db[a].present
                    /\ ~db[a].is_enabled
                    /\ db[a].status \in
                          {"STOPPED", "FAILED", "COMPLETED", "ERROR"} )
                  => req'[r].pc = "enable_save" /\ req'[r].sent = <<>>
             /\ ( Moves(r, "enable_save", "enable_dispatch")
                  => /\ db'[pk] = [db[pk] EXCEPT !.is_enabled = TRUE,
                                                 !.failure_count = 0,
                                                 !.status = "PENDING"]
                     /\ db[pk].present
                     /\ req'[r].sent = <<>> )
             /\ ( Moves(r, "enable_dispatch", "enable_save_job")
                  => /\ req'[r].sent = <<activate>>
                     /\ nextJobId' = nextJobId + 1
                     /\ db' = db )
             /\ ( (Moves(r, "enable_save_job", "done") /\ req'[r].resp = 204)
                  => /\ req'[r].sent = <<activate>>
                     /\ nextJobId' = nextJobId )
             /\ ( req[r].op = "enable" /\ req[r].pc # "done"
                  => req'[r].pc \in
                        CASE req[r].pc = "enable_save" ->
                                {"enable_save", "enable_dispatch", "done"}
                          [] req[r].pc = "enable_dispatch" ->
                                {"enable_dispatch", "enable_save_job"}
                          [] OTHER -> {"enable_save_job", "done"} )]_vars

\* C2 witness: an Enable that found the Activation disabled and FAILED with
\* a failure counted has returned success: the record is enabled, PENDING,
\* its failure_count is back to 0, and one activate job was dispatched.
C2_Witness ==
    \E r \in ReqIds :
        /\ Returned(req[r], "enable", 204,
                    <<[task |-> "activate_rulesets", target |-> req[r].pk,
                       is_restart |-> FALSE]>>)
        /\ db[req[r].pk].present
        /\ db[req[r].pk].is_enabled
        /\ db[req[r].pk].status = "PENDING"
        /\ db[req[r].pk].failure_count = 0
        /\ db[req[r].pk].current_job_id = nextJobId
        /\ nextJobId = 1

\* ---------------------------------------------------------------- C3
\* C3: Enable on an Activation that is already enabled returns success (204)
\* whatever the status, changes no column of the record and dispatches
\* no job.
C3_EnableAlreadyEnabledNoop ==
    [][\A r \in ReqIds, pk \in ActivationIds :
        ( /\ Loads(r, "enable", pk)
          /\ db[pk].present
          /\ db[pk].is_enabled )
        => /\ Returned(req'[r], "enable", 204, <<>>)
           /\ NothingWritten]_vars

\* C3 witness: an Enable has returned success without a dispatch on an
\* enabled Activation whose status (STOPPED) would have let an Enable through.
C3_Witness ==
    \E r \in ReqIds :
        /\ Returned(req[r], "enable", 204, <<>>)
        /\ db[req[r].pk].present
        /\ db[req[r].pk].is_enabled
        /\ db[req[r].pk].status = "STOPPED"
        /\ db[req[r].pk].failure_count = 1

\* ---------------------------------------------------------------- C4
\* the request of slot r submits a job of this task in this step
Dispatches(r, task) ==
    /\ Len(req'[r].sent) = Len(req[r].sent) + 1
    /\ req'[r].sent[Len(req'[r].sent)].task = task

\* C4: no activate job is dispatched for an Activation while its persisted
\* is_enabled is false, except as part of an Enable or of a Create: whenever
\* a request other than these dispatches an activate job, the record it is
\* for is not a disabled one at that moment.
C4_NoActivateWhileDisabled ==
    [][\A r \in ReqIds :
        ( /\ Dispatches(r, "activate_rulesets")
          /\ req[r].op \notin {"enable", "create"} )
        => ~( /\ db[req[r].pk].present
              /\ ~db[req[r].pk].is_enabled )]_vars

\* ---------------------------------------------------------------- C5
\* the request of slot r has passed its guard and has not returned yet
InCriticalSection(r) ==
    /\ req[r].op \in {"enable", "disable", "restart"}
    /\ req[r].pc \notin {"idle", "done"}

\* C5: two enable / disable / restart requests on the same Activation id
\* are never both past their guard check, not yet returned, with a job
\* dispatched by each.
C5_CriticalSection ==
    \A r1, r2 \in ReqIds :
        ( /\ r1 # r2
          /\ req[r1].pk = req[r2].pk
          /\ InCriticalSection(r1)
          /\ InCriticalSection(r2) )
        => ~(req[r1].sent # <<>> /\ req[r2].sent # <<>>)

\* ---------------------------------------------------------------- C6
\* C6: Restart on a disabled Activation returns Forbidden (403), dispatches
\* no job (no deactivate, no activate) and changes no column of the record
\* (restart_count included), also when the Activation has a RUNNING instance.
C6_RestartDisabledForbidden ==
    [][\A r \in ReqIds, pk \in ActivationIds :
        ( /\ Loads(r, "restart", pk)
          /\ db[pk].present
          /\ ~db[pk].is_enabled )
        => /\ Returned(req'[r], "restart", 403, <<>>)
           /\ NothingWritten]_vars

\* C6 witness: a Restart has returned Forbidden on a disabled Activation that
\* has a RUNNING instance; restart_count is still 0 and no job was submitted.
C6_Witness ==
    \E r \in ReqIds :
        /\ Returned(req[r], "restart", 403, <<>>)
        /\ db[req[r].pk].present
        /\ ~db[req[r].pk].is_enabled
        /\ db[req[r].pk].restart_count = 0
        /\ RunningInstancesOf(req[r].pk) # {}
        /\ nextJobId = 0

\* ---------------------------------------------------------------- C7
\* C7: Restart on an enabled Activation that has a RUNNING instance picks
\* one RUNNING instance of the Activation, dispatches one deactivate job for
\* that instance, then one activate job (is_restart = false) for the
\* Activation, nothing else, and then persists restart_count as the value
\* it read plus one (no other column); it returns success with exactly
\* these two jobs dispatched, in that order.
C7_RestartRunningInstance ==
    [][\A r \in ReqIds :
        LET pk == req'[r].pk
            inst == req'[r].instance_running
            deactivateJob == [task |-> "deactivate_rulesets", target |-> inst,
                              is_restart |-> FALSE]
            activateJob == [task |-> "activate_rulesets", target |-> pk,
                            is_restart |-> FALSE]
        IN /\ \A a \in ActivationIds :
                ( /\ Loads(r, "restart", a)
                  /\ db[a].present
                  /\ db[a].is_enabled )
                => /\ req'[r].pc = "restart_query"
                   /\ req'[r].activation.restart_count = db[a].restart_count
                   /\ req'[r].sent = <<>>
                   /\ NothingWritten
           /\ ( /\ req[r].pc = "restart_query"
                /\ req'[r] # req[r]
                /\ RunningInstancesOf(pk) # {} )
              => /\ req'[r].pc = "restart_deactivate"
                 /\ inst \in RunningInstancesOf(pk)
                 /\ req'[r].activation = req[r].activation
                 /\ req'[r].sent = <<>>
                 /\ NothingWritten
           /\ ( req[r].pc = "restart_deactivate" /\ req'[r] # req[r] )
              => /\ req'[r].pc = "restart_activate"
                 /\ req'[r].sent = <<deactivateJob>>
                 /\ inst = req[r].instance_running
                 /\ req'[r].activation = req[r].activation
                 /\ db' = db
           /\ ( /\ req[r].pc = "restart_activate"
                /\ req'[r] # req[r]
                /\ req[r].instance_running # 0 )
              => /\ req'[r].pc = "restart_save"
                 /\ req'[r].sent = <<deactivateJob, activateJob>>
                 /\ inst = req[r].instance_running
                 /\ req'[r].activation = req[r].activation
                 /\ db' = db
           /\ ( /\ req[r].pc = "restart_save"
                /\ req'[r] # req[r]
                /\ req[r].instance_running # 0
                /\ db[pk].present )
              => /\ Returned(req'[r], "restart", 204, req[r].sent)
                 /\ Len(req[r].sent) = 2
                 /\ db'[pk] = [db[pk] EXCEPT !.restart_count =
                                    req[r].activation.restart_count + 1]
                 /\ nextJobId' = nextJobId]_vars

\* C7 witness: a Restart has returned success having dispatched a deactivate
\* job for instance 1 and then an activate job; restart_count is now 1.
C7_Witness ==
    \E r \in ReqIds :
        /\ Returned(req[r], "restart", 204,
                    <<[task |-> "deactivate_rulesets", target |-> 1,
                       is_restart |-> FALSE],
                      [task |-> "activate_rulesets", target |-> req[r].pk,
                       is_restart |-> FALSE]>>)
        /\ db[req[r].pk].present
        /\ db[req[r].pk].is_enabled
        /\ db[req[r].pk].restart_count = 1
        /\ instances[1].present
        /\ instances[1].activation_id = req[r].pk

\* ---------------------------------------------------------------- C8
\* the jobs of a sequence that are addressed to instance i
JobsForInstance(jobs, i) ==
    {n \in 1..Len(jobs) : /\ jobs[n].task = "deactivate_rulesets"
                          /\ jobs[n].target = i}

\* C8 as stated: Disable on an enabled Activation persists status = STOPPING
\* and is_enabled = false and then dispatches one deactivate job per
\* currently running instance: as many jobs as there are RUNNING instances,
\* one addressed to each.
C8_DisableDispatchesPerRunningInstance ==
    [][\A r \in ReqIds :
        LET pk == req'[r].pk
        IN /\ ( Moves(r, "disable_save", "disable_dispatch")
                => db'[pk] = [db[pk] EXCEPT !.status = "STOPPING",
                                            !.is_enabled = FALSE] )
           /\ ( Moves(r, "disable_dispatch", "done")
                => /\ Len(req'[r].sent) = Cardinality(RunningInstancesOf(pk))
                   /\ \A i \in RunningInstancesOf(pk) :
                        Cardinality(JobsForInstance(req'[r].sent, i)) = 1 )]_vars

\* C8 amended: Disable on an enabled Activation persists status = STOPPING
\* and is_enabled = false (no other column) and then dispatches exactly one
\* deactivate job, addressed to the Activation by its id, whatever the number
\* of RUNNING instances (none, one or several); it dispatches no job
\* addressed to an instance.
C8_DisableDispatchesOneDeactivate ==
    [][\A r \in ReqIds :
        LET pk == req'[r].pk
        IN /\ \A a \in ActivationIds :
                ( /\ Loads(r, "disable", a)
                  /\ db[a].present
                  /\ db[a].is_enabled )
                => /\ req'[r].pc = "disable_save"
                   /\ req'[r].sent = <<>>
                   /\ NothingWritten
           /\ ( req[r].pc = "disable_save" /\ req'[r] # req[r] /\ db[pk].present )
              => /\ req'[r].pc = "disable_dispatch"
                 /\ req'[r].sent = <<>>
                 /\ db'[pk] = [db[pk] EXCEPT !.status = "STOPPING",
                                             !.is_enabled = FALSE]
                 /\ nextJobId' = nextJobId
           /\ ( req[r].pc = "disable_dispatch" /\ req'[r] # req[r] )
              => /\ Returned(req'[r], "disable", 204,
                             <<[task |-> "deactivate", target |-> pk,
                                is_restart |-> FALSE]>>)
                 /\ nextJobId' = nextJobId + 1
                 /\ db' = db]_vars

\* C8 witness: a Disable has returned success on an Activation with two
\* RUNNING instances, having dispatched the one deactivate job; the record
\* is STOPPING and disabled.
C8_Witness ==
    \E r \in ReqIds :
        /\ Returned(req[r], "disable", 204,
                    <<[task |-> "deactivate", target |-> req[r].pk,
                       is_restart |-> FALSE]>>)
        /\ db[req[r].pk].present
        /\ ~db[req[r].pk].is_enabled
        /\ db[req[r].pk].status = "STOPPING"
        /\ Cardinality(RunningInstancesOf(req[r].pk)) = 2

\* ---------------------------------------------------------------- C9
\* C9: Disable on an Activation that is already disabled returns success,
\* changes no column of the record and dispatches no job; so a Disable that
\* follows a completed Disable dispatches nothing more.
C9_DisableAlreadyDisabledNoop ==
    [][\A r \in ReqIds, pk \in ActivationIds :
        ( /\ Loads(r, "disable", pk)
          /\ db[pk].present
          /\ ~db[pk].is_enabled )
        => /\ Returned(req'[r], "disable", 204, <<>>)
           /\ NothingWritten]_vars

\* C9 witness: two Disable requests on the same Activation have returned
\* success: one dispatched the deactivate job, the other dispatched nothing;
\* the record is STOPPING and disabled, and the only jobs ever submitted are
\* the activate job that started the Activation and that one deactivate job.
C9_Witness ==
    \E r1, r2 \in ReqIds :
        /\ Returned(req[r1], "disable", 204,
                    <<[task |-> "deactivate", target |-> req[r1].pk,
                       is_restart |-> FALSE]>>)
        /\ Returned(req[r2], "disable", 204, <<>>)
        /\ req[r1].pk = req[r2].pk
        /\ db[req[r1].pk].present
        /\ ~db[req[r1].pk].is_enabled
        /\ db[req[r1].pk].status = "STOPPING"
        /\ nextJobId = 2

\* ---------------------------------------------------------------- C10
\* the instances a sequence of jobs is addressed to
Targets(jobs) == {jobs[n].target : n \in 1..Len(jobs)}

\* C10 as stated: Delete of an Activation with N RUNNING instances dispatches
\* exactly N deactivate jobs before it removes the record: the jobs it sets
\* out to dispatch are those of the RUNNING instances, and at the removal
\* all of them and no other have been dispatched.
C10_DeleteDispatchesPerRunningInstance ==
    [][\A r \in ReqIds :
        LET pk == req'[r].pk
        IN /\ ( Moves(r, "destroy_query", "destroy_loop")
                => Cardinality(req'[r].todo) =
                        Cardinality(RunningInstancesOf(pk)) )
           /\ ( Moves(r, "destroy_loop", "done")
                => req[r].todo = {} /\ ~db'[pk].present )]_vars

\* C10 amended: Delete of an Activation that has M instances in all (N of
\* them RUNNING) dispatches exactly M deactivate jobs, one for each instance
\* whatever its status (so exactly N only when every instance is RUNNING),
\* and the request removes the record only after the last of them; nothing
\* but the last step of a Delete removes a record.
C10_DeleteDispatchesPerInstance ==
    [][/\ \A r \in ReqIds :
          LET pk == req'[r].pk
          IN /\ ( Moves(r, "destroy_query", "destroy_loop")
                  => /\ req'[r].todo = InstancesOf(pk)
                     /\ req'[r].sent = <<>>
                     /\ NothingWritten )
             /\ ( Moves(r, "destroy_loop", "destroy_loop") /\ req'[r] # req[r]
                  => /\ \E i \in req[r].todo :
                          /\ req'[r].todo = req[r].todo \ {i}
                          /\ req'[r].sent =
                                Append(req[r].sent,
                                       [task |-> "deactivate_rulesets",
                                        target |-> i, is_restart |-> FALSE])
                     /\ Targets(req[r].sent) \cap req[r].todo = {}
                     /\ nextJobId' = nextJobId + 1
                     /\ db' = db
                     /\ instances' = instances )
             /\ ( Moves(r, "destroy_loop", "done")
                  => /\ req[r].todo = {}
                     /\ Returned(req'[r], "destroy", 204, req[r].sent)
                     /\ Cardinality(Targets(req[r].sent)) = Len(req[r].sent)
                     /\ ~db'[pk].present
                     /\ nextJobId' = nextJobId )
       /\ \A pk \in ActivationIds :
            (db[pk].present /\ ~db'[pk].present)
            => \E r \in ReqIds : /\ Moves(r, "destroy_loop", "done")
                                 /\ req[r].op = "destroy"
                                 /\ req[r].pk = pk]_vars

\* C10 witness: a Delete is about to remove the record of an Activation with
\* one RUNNING and one STOPPED instance: it has dispatched two deactivate
\* jobs, one for each, and the record is still there.
C10_Witness ==
    \E r \in ReqIds :
        /\ req[r].op = "destroy"
        /\ req[r].pc = "destroy_loop"
        /\ req[r].todo = {}
        /\ Len(req[r].sent) = 2
        /\ Targets(req[r].sent) = {1, 2}
        /\ db[req[r].pk].present
        /\ InstancesOf(req[r].pk) = {1, 2}
        /\ Cardinality(RunningInstancesOf(req[r].pk)) = 1

\* ---------------------------------------------------------------- C11
\* C11: Delete dispatches a deactivate job for every instance that belongs to
\* the Activation, whatever the status of the instance, before the record is
\* removed: at the step that removes the record, every instance the
\* Activation has at that moment is the target of a deactivate job the
\* request has dispatched, so the removal leaves no instance without one.
C11_DeleteLeavesNoInstanceWithoutDeactivate ==
    [][\A r \in ReqIds :
        ( /\ req[r].op = "destroy"
          /\ Moves(r, "destroy_loop", "done")
          /\ ~db'[req[r].pk].present )
        => \A i \in InstanceIds :
              ( /\ instances[i].present
                /\ instances[i].activation_id = req[r].pk )
              => \E n \in 1..Len(req[r].sent) :
                    req[r].sent[n] = [task |-> "deactivate_rulesets",
                                      target |-> i, is_restart |-> FALSE]]_vars

\* ---------------------------------------------------------------- C12
\* C12: a successful Create dispatches an activate job (is_restart false,
\* for the id of the new record) if and only if the record it created has
\* is_enabled true: the step that inserts the record dispatches nothing and
\* either goes on to the dispatch (record enabled) or returns 201 with no
\* job (record disabled); the dispatch is reached in no other way, and it
\* submits exactly that one job and returns 201.
C12_CreateDispatchesIffEnabled ==
    [][\A r \in ReqIds :
        /\ ( req[r].pc = "idle" /\ req'[r].op = "create"
                                /\ req'[r].pk \in ActivationIds )
           => LET pk == req'[r].pk
              IN /\ ~db[pk].present
                 /\ db'[pk].present
                 /\ nextJobId' = nextJobId
                 /\ req'[r].sent = <<>>
                 /\ IF db'[pk].is_enabled
                    THEN req'[r].pc = "create_dispatch"
                    ELSE Returned(req'[r], "create", 201, <<>>)
        /\ ( req[r].pc # "create_dispatch" /\ req'[r].pc = "create_dispatch" )
           => /\ req[r].pc = "idle"
              /\ db'[req'[r].pk].is_enabled
        /\ ( req[r].op = "create" /\ req[r].pc # "done"
                                  /\ req'[r].pc = "done" )
           => /\ req[r].pc = "create_dispatch"
              /\ nextJobId' = nextJobId + 1
              /\ db' = db
              /\ Returned(req'[r], "create", 201,
                    <<[task |-> "activate_rulesets", target |-> req[r].pk,
                       is_restart |-> FALSE]>>)]_vars

\* C12 witness: a Create of an enabled Activation has returned 201 and has
\* dispatched the one activate job for the new id.
C12_Witness ==
    \E r \in ReqIds :
        /\ Returned(req[r], "create", 201,
              <<[task |-> "activate_rulesets", target |-> req[r].pk,
                 is_restart |-> FALSE]>>)
        /\ db[req[r].pk].present
        /\ db[req[r].pk].is_enabled
        /\ nextJobId = 1

\* ---------------------------------------------------------------- C13
\* C13: a Create whose rulebook_id names no Rulebook, every other reference
\* being absent or naming an existing row, returns Unprocessable (422) with
\* the detail "Rulebook with ID=<the id> does not exist."; it leaves the
\* Activation table as it was and dispatches no job.
C13_CreateMissingRulebook ==
    [][\A r \in ReqIds :
        LET body == req'[r].validated_data
        IN ( /\ req[r].pc = "idle"
             /\ req'[r].op = "create"
             /\ body.rulebook_id \notin {0, 1}
             /\ body.decision_environment_id \in {0, 1}
             /\ body.project_id \in {0, 2}
             /\ body.extra_var_id \in {0, 2} )
           => /\ req'[r].pc = "done"
              /\ req'[r].resp = 422
              /\ req'[r].data = <<"Rulebook", " with ID=", body.rulebook_id,
                                  " does not exist.">>
              /\ req'[r].sent = <<>>
              /\ db' = db
              /\ nextActivationId' = nextActivationId
              /\ nextJobId' = nextJobId]_vars

\* C13 witness: a Create with rulebook_id 2 (no such Rulebook), an existing
\* decision environment and no other reference has returned 422 naming the
\* Rulebook, and there is no Activation.
C13_Witness ==
    \E r \in ReqIds :
        /\ req[r].op = "create"
        /\ req[r].pc = "done"
        /\ req[r].validated_data.rulebook_id = 2
        /\ req[r].validated_data.decision_environment_id = 1
        /\ req[r].validated_data.project_id = 0
        /\ req[r].validated_data.extra_var_id = 0
        /\ req[r].validated_data.is_enabled
        /\ req[r].resp = 422
        /\ req[r].data = <<"Rulebook", " with ID=", 2, " does not exist.">>
        /\ \A pk \in ActivationIds : ~db[pk].present
        /\ nextJobId = 0

\* ---------------------------------------------------------------- C14
\* C14: whenever the insert of a Create fails, the conflict resolver ends
\* the request with an Unprocessable (422), never in another way: its detail
\* names the first reference, in the order decision_environment, project,
\* rulebook, extra_var, whose id is given and names no row (a reference
\* whose id is absent is skipped), and is the generic "Integrity error."
\* when every given id names a row.
C14_ConflictResolver ==
    [][\A r \in ReqIds :
        LET body == req'[r].validated_data
            missing(id, rows) == id # 0 /\ id \notin rows
            named(name, id) == <<name, " with ID=", id, " does not exist.">>
        IN ( /\ req[r].pc = "idle"
             /\ req'[r].op = "create"
             /\ req'[r].pk = 0 )
           => /\ req'[r].pc = "done"
              /\ req'[r].resp = 422
              /\ req'[r].data =
                    IF missing(body.decision_environment_id, {1})
                    THEN named("Decision_environment",
                               body.decision_environment_id)
                    ELSE IF missing(body.project_id, {2})
                    THEN named("Project", body.project_id)
                    ELSE IF missing(body.rulebook_id, {1})
                    THEN named("Rulebook", body.rulebook_id)
                    ELSE IF missing(body.extra_var_id, {2})
                    THEN named("Extra_var", body.extra_var_id)
                    ELSE <<"Integrity error.">>]_vars

\* C14 witness: a Create whose decision_environment_id and rulebook_id both
\* name no row has been answered 422 naming the decision environment, and
\* another one whose ids all name rows 422 with the generic detail.
C14_Witness ==
    \E r1, r2 \in ReqIds :
        /\ req[r1].op = "create"
        /\ req[r1].validated_data.decision_environment_id = 2
        /\ req[r1].validated_data.project_id = 0
        /\ req[r1].validated_data.rulebook_id = 2
        /\ req[r1].resp = 422
        /\ req[r1].data = <<"Decision_environment", " with ID=", 2,
                            " does not exist.">>
        /\ req[r2].op = "create"
        /\ req[r2].validated_data.decision_environment_id = 1
        /\ req[r2].validated_data.project_id = 2
        /\ req[r2].validated_data.rulebook_id = 1
        /\ req[r2].validated_data.extra_var_id = 0
        /\ req[r2].resp = 422
        /\ req[r2].data = <<"Integrity error.">>

C16_OneJobInFlight ==
    \A pk \in ActivationIds :
        LET jobs ==
                {[task |-> "activate_rulesets", target |-> pk,
                  is_restart |-> FALSE],
                 [task |-> "deactivate", target |-> pk,
                  is_restart |-> FALSE]}
                \cup {[task |-> "deactivate_rulesets", target |-> i,
                       is_restart |-> FALSE] :
                        i \in {n \in InstanceIds :
                                  /\ instances[n].present
                                  /\ instances[n].activation_id = pk}}
        IN /\ \A job \in jobs : queue[job] <= 1
           /\ \A job1, job2 \in jobs :
                (queue[job1] > 0 /\ queue[job2] > 0) => job1 = job2

\* ---------------------------------------------------------------- C17
\* C17: after every activate dispatch of a Create, an Enable or a Restart,
\* current_job_id of the Activation is written at once and equals the handle
\* of that dispatch: a Create that returns having dispatched has left the id
\* of its job there; an Enable keeps the handle of its dispatch and writes
\* it in its next step; the save that follows the dispatch of a Restart
\* writes current_job_id (to the id of a submitted job, which, being a new
\* id, is not the value the column held).
C17_CurrentJobIdFollowsDispatch ==
    [][\A r \in ReqIds :
        LET pk == req[r].pk
        IN /\ ( Moves(r, "create_dispatch", "done") /\ db'[pk].present )
              => db'[pk].current_job_id = nextJobId'
           /\ Moves(r, "enable_dispatch", "enable_save_job")
              => req'[r].activation.current_job_id = nextJobId'
           /\ ( Moves(r, "enable_save_job", "done") /\ req'[r].resp = 204 )
              => db'[pk].current_job_id = req[r].activation.current_job_id
           /\ ( Moves(r, "restart_save", "done") /\ req'[r].resp = 204 )
              => /\ db'[pk].current_job_id \in 1..nextJobId'
                 /\ db'[pk].current_job_id # db[pk].current_job_id]_vars

\* ---------------------------------------------------------------- C18
\* C18: cancellation is reliable.  Stated so that a finite run refutes it:
\* (Delete) when a Delete removes the record, every RUNNING instance the
\* Activation has at that moment is the target of a deactivate job the
\* request has dispatched or of one still queued, since after the removal
\* no request can find the instance any more; (Disable) when nothing is
\* left to happen for a disabled Activation (every request has returned, no
\* job is queued), none of its instances is RUNNING, since then no
\* deactivate job will be dispatched to it.
C18_CancellationReachesEveryWorker ==
    [][/\ \A r \in ReqIds :
            LET pk == req[r].pk
            IN ( /\ req[r].op = "destroy"
                 /\ Moves(r, "destroy_loop", "done")
                 /\ ~db'[pk].present )
               => \A i \in InstanceIds :
                    ( /\ instances[i].present
                      /\ instances[i].activation_id = pk
                      /\ instances[i].status = "RUNNING" )
                    => \/ \E n \in 1..Len(req[r].sent) :
                            req[r].sent[n] =
                                [task |-> "deactivate_rulesets",
                                 target |-> i, is_restart |-> FALSE]
                       \/ queue[[task |-> "deactivate_rulesets",
                                 target |-> i, is_restart |-> FALSE]] > 0
                       \/ queue[[task |-> "deactivate", target |-> pk,
                                 is_restart |-> FALSE]] > 0
       /\ \A pk \in ActivationIds :
            ( /\ \A r \in ReqIds : req'[r].pc \in {"idle", "done"}
              /\ \A job \in DOMAIN queue' : queue'[job] = 0
              /\ db'[pk].present
              /\ ~db'[pk].is_enabled )
            => \A i \in InstanceIds :
                 ~( /\ instances'[i].present
                    /\ instances'[i].activation_id = pk
                    /\ instances'[i].status = "RUNNING" )]_vars

\* the Disable half of C18 alone
C18_DisableReachesEveryWorker ==
    \A pk \in ActivationIds :
        ( /\ \A r \in ReqIds : req[r].pc \in {"idle", "done"}
          /\ \A job \in DOMAIN queue : queue[job] = 0
          /\ db[pk].present
          /\ ~db[pk].is_enabled )
        => \A i \in InstanceIds :
             ~( /\ instances[i].present
                /\ instances[i].activation_id = pk
                /\ instances[i].status = "RUNNING" )


\* C19: every List call first runs one whole monitoring pass, in the
\* handler itself and with nothing read yet (every Activation that is
\* RUNNING without a running run, and only Activations that are RUNNING,
\* become UNRESPONSIVE; nothing is dispatched), and only a request past
\* that pass reads the rows: the list it returns with 200 holds exactly the
\* rows as they are at the read, after the pass.
C19_ListMonitorsBeforeReading ==
    [][\A r \in ReqIds :
        /\ (req[r].pc = "idle" /\ req'[r].op = "list")
            => /\ req'[r].pc = "list_read"
               /\ req'[r].data = <<>>
               /\ req'[r].sent = <<>>
               /\ \E stale \in SUBSET {pk \in ActivationIds :
                                db[pk].present /\ db[pk].status = "RUNNING"} :
                    /\ \A pk \in ActivationIds :
                          ( /\ db[pk].present
                            /\ db[pk].status = "RUNNING"
                            /\ ~\E i \in InstanceIds :
                                  /\ instances[i].present
                                  /\ instances[i].activation_id = pk
                                  /\ instances[i].status = "RUNNING" )
                          => pk \in stale
                    /\ db' = [pk \in ActivationIds |->
                                IF pk \in stale
                                THEN [db[pk] EXCEPT !.status = "UNRESPONSIVE"]
                                ELSE db[pk]]
        /\ (req[r].op = "list" /\ req[r].pc # "done" /\ req'[r].pc = "done")
            => /\ req[r].pc = "list_read"
               /\ req'[r].resp = 200
               /\ db' = db
               /\ DOMAIN req'[r].data = {pk \in ActivationIds : db[pk].present}
               /\ \A pk \in DOMAIN req'[r].data :
                     /\ req'[r].data[pk].id = pk
                     /\ req'[r].data[pk].status = db[pk].status
                     /\ req'[r].data[pk].is_enabled = db[pk].is_enabled
        /\ (req[r].op = "list" /\ req[r].pc = "list_read")
            => req'[r].pc \in {"list_read", "done"}
      ]_vars

\* a List call has returned an Activation that its own monitoring pass
\* found dead and marked UNRESPONSIVE
C19_Witness ==
    \E r \in ReqIds :
        /\ req[r].op = "list"
        /\ req[r].pc = "done"
        /\ req[r].resp = 200
        /\ \E pk \in DOMAIN req[r].data :
              /\ req[r].data[pk].status = "UNRESPONSIVE"
              /\ db[pk].status = "UNRESPONSIVE"


\* C20: in every 200 response of retrieve, and in every row of every 200
\* response of list, rules_count is the sum of numberOfRules and
\* rules_fired_count the sum of rulesTriggered over all entries of the
\* row's ruleset_stats (counted here as the rules and the firings of all
\* entries laid side by side); for an empty ruleset_stats both are 0.
C20_RulesCountsAreSums ==
    \A r \in ReqIds :
        (req[r].pc = "done" /\ req[r].resp = 200
                            /\ req[r].op \in {"retrieve", "list"})
        => \A row \in IF req[r].op = "retrieve"
                      THEN {req[r].data}
                      ELSE {req[r].data[pk] : pk \in DOMAIN req[r].data} :
              /\ row.rules_count = Cardinality(
                    {<<name, k>> \in (DOMAIN row.ruleset_stats) \X (1..MaxRules) :
                        k <= row.ruleset_stats[name].numberOfRules})
              /\ row.rules_fired_count = Cardinality(
                    {<<name, k>> \in (DOMAIN row.ruleset_stats) \X (1..MaxRules) :
                        k <= row.ruleset_stats[name].rulesTriggered})
              /\ row.ruleset_stats = <<>>
                    => row.rules_count = 0 /\ row.rules_fired_count = 0

\* a retrieve has returned the counts 3 and 1 for two rulesets with 2 and 1
\* rules, of which 1 and 0 fired, while a list has returned a row without
\* statistics
C20_Witness ==
    \E r, l \in ReqIds :
        /\ req[r].op = "retrieve"
        /\ req[r].pc = "done"
        /\ req[r].resp = 200
        /\ DOMAIN req[r].data.ruleset_stats = {1, 2}
        /\ req[r].data.ruleset_stats[1].numberOfRules = 2
        /\ req[r].data.ruleset_stats[2].numberOfRules = 1
        /\ req[r].data.ruleset_stats[1].rulesTriggered = 1
        /\ req[r].data.ruleset_stats[2].rulesTriggered = 0
        /\ req[r].data.rules_count = 3
        /\ req[r].data.rules_fired_count = 1
        /\ req[l].op = "list"
        /\ req[l].pc = "done"
        /\ \E pk \in DOMAIN req[l].data :
              /\ req[l].data[pk].ruleset_stats = <<>>
              /\ req[l].data[pk].rules_count = 0
              /\ req[l].data[pk].rules_fired_count = 0

\* ---------------------------------------------------------------- C21
\* C21: a request for the logs of an instance id that has no row returns 404
\* at once, and so does a request for the instances of an Activation id that
\* has no row; neither writes anything. When the instance has a row, the
\* 200 response holds lines of that instance only (all of them, as they fit
\* one page), each once, in ascending id order.
C21_LogsOfOneInstanceAscending ==
    [][\A r \in ReqIds :
        /\ (req[r].pc = "idle" /\ req'[r].op = "logs")
            => /\ IF req'[r].pk \in InstanceIds /\ instances[req'[r].pk].present
                  THEN req'[r].pc = "logs_read"
                  ELSE req'[r].pc = "done" /\ req'[r].resp = 404
               /\ db' = db /\ instances' = instances /\ logs' = logs
        /\ (req[r].pc = "idle" /\ req'[r].op = "instances")
            => /\ IF req'[r].pk \in ActivationIds /\ db[req'[r].pk].present
                  THEN req'[r].pc = "instances_read"
                  ELSE req'[r].pc = "done" /\ req'[r].resp = 404
               /\ db' = db /\ instances' = instances /\ logs' = logs
        /\ (req[r].op = "logs" /\ req[r].pc # "done" /\ req'[r].pc = "done"
                               /\ req'[r].resp = 200)
            => /\ req[r].pc = "logs_read"
               /\ \A n \in DOMAIN req'[r].data :
                     /\ req'[r].data[n].id \in LogIds
                     /\ logs[req'[r].data[n].id].present
                     /\ logs[req'[r].data[n].id].activation_instance_id
                            = req[r].pk
                     /\ req'[r].data[n].activation_instance_id = req[r].pk
                     /\ \A m \in DOMAIN req'[r].data :
                           m < n => req'[r].data[m].id < req'[r].data[n].id
               /\ DOMAIN req'[r].data = 1..Len(req'[r].data)
               /\ \A l \in LogIds :
                     (logs[l].present
                        /\ logs[l].activation_instance_id = req[r].pk)
                     => \E n \in DOMAIN req'[r].data : req'[r].data[n].id = l
      ]_vars

\* the lines 1 and 3 of an instance have been returned, in that order,
\* while line 2 is of another instance; and a request for the instances of
\* an Activation that does not exist has returned 404
C21_Witness ==
    \E r, q \in ReqIds :
        /\ req[r].op = "logs"
        /\ req[r].pc = "done"
        /\ req[r].resp = 200
        /\ Len(req[r].data) = 2
        /\ req[r].data[1].id = 1
        /\ req[r].data[2].id = 3
        /\ logs[2].present
        /\ logs[2].activation_instance_id # req[r].pk
        /\ req[q].op = "instances"
        /\ req[q].pc = "done"
        /\ req[q].resp = 404

\* ---------------------------------------------------------------- C22
\* C22: Activations of different ids are independent. A step of an enable,
\* disable, restart or delete request on Activation A leaves every row of
\* another Activation and every instance of another Activation as it was,
\* and a job it submits is for A or for an instance that is not of another
\* Activation. No request waits for another: while jobs can still be
\* submitted, a request that has begun can always take its next step, and
\* a free slot accepts a request on any Activation, whatever the requests of
\* the other slots are doing.
C22_IdsAreIndependent ==
    /\ [][\A r \in ReqIds :
            ( /\ req'[r] # req[r]
              /\ req'[r].op \in {"enable", "disable", "restart", "destroy"} )
            => LET A == req'[r].pk
                   others == (DOMAIN db) \ {A}
               IN /\ \A B \in others : db'[B] = db[B]
                  /\ \A i \in InstanceIds :
                        instances[i].activation_id # A
                            => instances'[i] = instances[i]
                  /\ Len(req'[r].sent) > Len(req[r].sent)
                        => LET job == req'[r].sent[Len(req'[r].sent)]
                           IN IF job.task = "deactivate_rulesets"
                              THEN instances[job.target].activation_id
                                        \notin others
                              ELSE job.target = A
       ]_vars
    /\ [](\A r \in ReqIds :
            /\ (req[r].pc \notin {"idle", "done"} /\ nextJobId < MaxJobs)
                => ENABLED (Continue(r) /\ UNCHANGED <<queue, logs>>)
            /\ req[r].pc = "idle"
                => \A pk \in DOMAIN db :
                      /\ ENABLED (\E q \in ReqIds :
                            EnableLoad(q, pk) /\ UNCHANGED <<queue, logs>>)
                      /\ ENABLED (\E q \in ReqIds :
                            DisableLoad(q, pk) /\ UNCHANGED <<queue, logs>>)
                      /\ ENABLED (\E q \in ReqIds :
                            RestartLoad(q, pk) /\ UNCHANGED <<queue, logs>>)
                      /\ ENABLED (\E q \in ReqIds :
                            DestroyLoad(q, pk) /\ UNCHANGED <<queue, logs>>))

\* a restart of Activation 1 has submitted its two jobs and returned while a
\* delete of Activation 2 is between its jobs and the removal of the row
C22_Witness ==
    \E r, q \in ReqIds :
        /\ req[r].op = "restart"
        /\ req[r].pk = 1
        /\ req[r].pc = "done"
        /\ req[r].resp = 204
        /\ Len(req[r].sent) = 2
        /\ req[q].op = "destroy"
        /\ req[q].pk = 2
        /\ req[q].pc = "destroy_loop"
        /\ db[2].present
        /\ db[1].restart_count = 1

\* ---------------------------------------------------------------- C23
\* C23: a Restart of an enabled Activation, whatever its status, whose query
\* finds no RUNNING instance of it submits no deactivate job and then one
\* activate job (is_restart = false) for the Activation, and then persists
\* restart_count as the value it read plus one (no other column); it
\* returns success with exactly that one job submitted.
C23_RestartWithoutRunningInstance ==
    [][\A r \in ReqIds :
        LET pk == req'[r].pk
            activateJob == [task |-> "activate_rulesets", target |-> pk,
                            is_restart |-> FALSE]
        IN /\ \A a \in ActivationIds :
                ( /\ req[r].pc = "idle"
                  /\ req'[r].op = "restart"
                  /\ req'[r].pk = a
                  /\ db[a].present
                  /\ db[a].is_enabled
                  /\ db[a].status \in {"PENDING", "STARTING", "RUNNING",
                                       "STOPPING", "STOPPED", "FAILED",
                                       "COMPLETED", "UNRESPONSIVE", "ERROR"} )
                => /\ req'[r].pc = "restart_query"
                   /\ req'[r].activation.restart_count = db[a].restart_count
                   /\ req'[r].sent = <<>>
                   /\ db' = db /\ nextJobId' = nextJobId
           /\ ( /\ req[r].pc = "restart_query"
                /\ req'[r] # req[r]
                /\ ~\E i \in InstanceIds :
                      /\ instances[i].present
                      /\ instances[i].activation_id = pk
                      /\ instances[i].status = "RUNNING" )
              => /\ req'[r].pc = "restart_activate"
                 /\ req'[r].instance_running = 0
                 /\ req'[r].activation = req[r].activation
                 /\ req'[r].sent = <<>>
                 /\ db' = db /\ nextJobId' = nextJobId
           /\ ( /\ req[r].pc = "restart_activate"
                /\ req'[r] # req[r]
                /\ req[r].instance_running = 0 )
              => /\ req'[r].pc = "restart_save"
                 /\ req'[r].sent = <<activateJob>>
                 /\ req'[r].activation = req[r].activation
                 /\ nextJobId' = nextJobId + 1
                 /\ db' = db
           /\ ( /\ req[r].pc = "restart_save"
                /\ req'[r] # req[r]
                /\ req[r].instance_running = 0
                /\ db[pk].present )
              => /\ req'[r].pc = "done"
                 /\ req'[r].op = "restart"
                 /\ req'[r].resp = 204
                 /\ req'[r].sent = <<activateJob>>
                 /\ db'[pk] = [db[pk] EXCEPT !.restart_count =
                                    req[r].activation.restart_count + 1]
                 /\ nextJobId' = nextJobId]_vars

\* a Restart of an enabled Activation whose status is FAILED and which has
\* no RUNNING instance has returned success having submitted one activate
\* job; restart_count is now 1
C23_Witness ==
    \E r \in ReqIds :
        /\ req[r].op = "restart"
        /\ req[r].pc = "done"
        /\ req[r].resp = 204
        /\ req[r].sent = <<[task |-> "activate_rulesets", target |-> req[r].pk,
                            is_restart |-> FALSE]>>
        /\ db[req[r].pk].is_enabled
        /\ db[req[r].pk].status = "FAILED"
        /\ db[req[r].pk].restart_count = 1
        /\ \A i \in InstanceIds : ~instances[i].present
        /\ nextJobId = 1

\* ---------------------------------------------------------------- C24
\* C24: restart_count counts the restarts exactly: every Restart that
\* completes successfully raises the restart_count of its Activation by one
\* from what it was just before (so k completed Restarts, interleaved or
\* not, add up to k), and no other step changes the restart_count of an
\* Activation that stays in the table.
C24_RestartCountCountsRestarts ==
    [][\A pk \in ActivationIds :
        (db[pk].present /\ db'[pk].present)
        => IF \E r \in ReqIds : /\ req[r].op = "restart"
                                /\ req[r].pk = pk
                                /\ req[r].pc # "done"
                                /\ req'[r].pc = "done"
                                /\ req'[r].resp = 204
           THEN db'[pk].restart_count = db[pk].restart_count + 1
           ELSE db'[pk].restart_count = db[pk].restart_count
      ]_vars

\* the second half of C24 alone: only the last step of a successful
\* Restart changes restart_count
RestartCountOnlyByRestart ==
    [][\A pk \in ActivationIds :
        (db[pk].present /\ db'[pk].present
            /\ db'[pk].restart_count # db[pk].restart_count)
        => \E r \in ReqIds : /\ req[r].op = "restart"
                             /\ req[r].pk = pk
                             /\ req[r].pc = "restart_save"
                             /\ req'[r].pc = "done"
                             /\ req'[r].resp = 204
      ]_vars

\* ---------------------------------------------------------------- C25
\* the order of the steps of an Enable that dispatches: (1) is_enabled =
\* true, failure_count = 0 and status = PENDING are persisted, nothing being
\* submitted yet, (2) one activate job is put in the queue, from the
\* position after (1) only, (3) current_job_id is persisted with the handle
\* of that job, and no other column is written
EnableStepsInOrder ==
    [][\A r \in ReqIds :
        LET pk == req'[r].pk
            activate == [task |-> "activate_rulesets", target |-> pk,
                         is_restart |-> FALSE]
        IN /\ (req[r].pc = "enable_save" /\ req'[r].pc = "enable_dispatch")
                => /\ db'[pk] = [db[pk] EXCEPT !.is_enabled = TRUE,
                                               !.failure_count = 0,
                                               !.status = "PENDING"]
                   /\ req'[r].sent = <<>>
                   /\ queue' = queue
           /\ (req[r].op = "enable" /\ Len(req'[r].sent) > Len(req[r].sent))
                => /\ req[r].pc = "enable_dispatch"
                   /\ req'[r].pc = "enable_save_job"
                   /\ req'[r].sent = <<activate>>
                   /\ queue' = [queue EXCEPT ![activate] = @ + 1]
                   /\ req'[r].activation.current_job_id = nextJobId'
                   /\ nextJobId' = nextJobId + 1
                   /\ db' = db
           /\ (req[r].pc = "enable_save_job" /\ req'[r].pc = "done"
                                             /\ req'[r].resp = 204)
                => /\ db'[pk] = [db[pk] EXCEPT !.current_job_id =
                                    req[r].activation.current_job_id]
                   /\ req[r].activation.current_job_id > 0
                   /\ queue' = queue
      ]_vars

\* C25: in every Enable that dispatches, the steps occur in the order (1)
\* is_enabled = true, failure_count = 0, status = PENDING are persisted, (2)
\* the activate job is dispatched, (3) current_job_id is persisted with the
\* returned handle and nothing else is written; and the activate job of an
\* Enable does not enter the queue while the record of its Activation shows
\* is_enabled = false.
C25_EnableOrderAndQueue ==
    [][\A r \in ReqIds :
        LET pk == req'[r].pk
            activate == [task |-> "activate_rulesets", target |-> pk,
                         is_restart |-> FALSE]
        IN /\ (req[r].pc = "enable_save" /\ req'[r].pc = "enable_dispatch")
                => /\ db'[pk] = [db[pk] EXCEPT !.is_enabled = TRUE,
                                               !.failure_count = 0,
                                               !.status = "PENDING"]
                   /\ req'[r].sent = <<>>
                   /\ queue' = queue
           /\ (req[r].op = "enable" /\ Len(req'[r].sent) > Len(req[r].sent))
                => /\ req[r].pc = "enable_dispatch"
                   /\ req'[r].pc = "enable_save_job"
                   /\ req'[r].sent = <<activate>>
                   /\ queue' = [queue EXCEPT ![activate] = @ + 1]
                   /\ db' = db
                   /\ db'[pk].present => db'[pk].is_enabled
           /\ (req[r].pc = "enable_save_job" /\ req'[r].pc = "done"
                                             /\ req'[r].resp = 204)
                => /\ db'[pk] = [db[pk] EXCEPT !.current_job_id =
                                    req[r].activation.current_job_id]
                   /\ queue' = queue
      ]_vars

\* ---------------------------------------------------------------- C26
\* an Enable request that arrives while the record is disabled and STOPPING
\* returns Conflict at once, submits nothing and writes nothing; and no
\* request moves a status to a value outside STARTING, STOPPING, PENDING,
\* RUNNING, UNRESPONSIVE
EnableConflictWhileStopping ==
    [][/\ \A r \in ReqIds, pk \in ActivationIds :
            ( /\ req[r].pc = "idle"
              /\ req'[r].op = "enable"
              /\ req'[r].pk = pk
              /\ db[pk].present
              /\ ~db[pk].is_enabled
              /\ db[pk].status = "STOPPING" )
            => /\ req'[r].pc = "done"
               /\ req'[r].resp = 409
               /\ req'[r].sent = <<>>
               /\ db' = db
               /\ nextJobId' = nextJobId
       /\ \A pk \in ActivationIds :
            ( /\ req' # req
              /\ db[pk].present
              /\ db'[pk].present
              /\ db'[pk].status # db[pk].status )
            => db'[pk].status \in {"STARTING", "STOPPING", "PENDING",
                                   "RUNNING", "UNRESPONSIVE"}
      ]_vars

\* C26: once a Disable has persisted is_enabled = false and status =
\* STOPPING, and for as long as the record stays so, the only step an
\* Enable request on that Activation takes is to return Conflict, having
\* submitted nothing and written nothing; and no request moves a status to a
\* value outside STARTING, STOPPING, PENDING, RUNNING, UNRESPONSIVE, so that
\* only something other than the views can make an Enable succeed again.
C26_NoEnableWhileStopping ==
    [][/\ \A r, q \in ReqIds :
            LET pk == req'[r].pk
            IN ( /\ req'[r] # req[r]
                 /\ req'[r].op = "enable"
                 /\ req[q].op = "disable"
                 /\ req[q].pk = pk
                 /\ \/ req[q].pc = "disable_dispatch"
                    \/ /\ req[q].pc = "done"
                       /\ req[q].resp = 204
                       /\ Len(req[q].sent) = 1
                 /\ db[pk].present
                 /\ ~db[pk].is_enabled
                 /\ db[pk].status = "STOPPING" )
               => /\ req'[r].pc = "done"
                  /\ req'[r].resp = 409
                  /\ req'[r].sent = <<>>
                  /\ db' = db
                  /\ nextJobId' = nextJobId
       /\ \A pk \in ActivationIds :
            ( /\ req' # req
              /\ db[pk].present
              /\ db'[pk].present
              /\ db'[pk].status # db[pk].status )
            => db'[pk].status \in {"STARTING", "STOPPING", "PENDING",
                                   "RUNNING", "UNRESPONSIVE"}
      ]_vars

\* ---------------------------------------------------------------- C27
\* C27: no step of a Restart request changes is_enabled, status,
\* failure_count or current_job_id of any Activation, nor adds or removes a
\* row; a Restart that returns success has submitted an activate job for
\* its Activation and has written restart_count only.
C27_RestartWritesRestartCountOnly ==
    [][\A r \in ReqIds :
        (req'[r] # req[r] /\ req'[r].op = "restart")
        => /\ \A a \in ActivationIds :
                /\ db'[a].present = db[a].present
                /\ db'[a].is_enabled = db[a].is_enabled
                /\ db'[a].status = db[a].status
                /\ db'[a].failure_count = db[a].failure_count
                /\ db'[a].current_job_id = db[a].current_job_id
                /\ a # req'[r].pk => db'[a] = db[a]
           /\ (req'[r].pc = "done" /\ req'[r].resp = 204)
                => /\ req'[r].sent # <<>>
                   /\ req'[r].sent[Len(req'[r].sent)]
                        = [task |-> "activate_rulesets",
                           target |-> req'[r].pk, is_restart |-> FALSE]
                   /\ db'[req'[r].pk].restart_count
                        # db[req'[r].pk].restart_count
                      => db'[req'[r].pk] =
                            [db[req'[r].pk] EXCEPT !.restart_count =
                                db'[req'[r].pk].restart_count]
      ]_vars

\* a Restart has returned success and its activate job was the second job
\* submitted: the Activation is still enabled and RUNNING with one failure
\* counted, current_job_id is still the handle 1 the Enable stored, and
\* restart_count is 1
C27_Witness ==
    \E r \in ReqIds :
        /\ req[r].op = "restart"
        /\ req[r].pc = "done"
        /\ req[r].resp = 204
        /\ req[r].sent # <<>>
        /\ nextJobId = 2
        /\ db[req[r].pk].is_enabled
        /\ db[req[r].pk].status = "RUNNING"
        /\ db[req[r].pk].failure_count = 1
        /\ db[req[r].pk].current_job_id = 1
        /\ db[req[r].pk].restart_count = 1

====
